---- MODULE Spec2Model ----
(***************************************************************************)
(* Model of bspaans/chess-engine: the position model and move generator    *)
(* (package chess_engine, fen.go part of src/valid_moves_list.go) and the  *)
(* depth-first search engine (DFSEngine, src/unnamed/part_001).            *)
(***************************************************************************)
EXTENDS Integers, Sequences, FiniteSets, TLC

(***************************************************************************)
(* Colours, castle status, pieces                                          *)
(***************************************************************************)
NoColor == 0
Black == 1
White == 2

Opposite(c) == IF c = Black THEN White ELSE Black

ColorString(c) == IF c = White THEN "w" ELSE IF c = Black THEN "b" ELSE " "

Both == 0
None == 1
Kingside == 2
Queenside == 3

CastleStatusString(cs, c) ==
  IF cs = Both /\ c = Black THEN <<"k", "q">>
  ELSE IF cs = Both /\ c = White THEN <<"K", "Q">>
  ELSE IF cs = Kingside /\ c = Black THEN <<"k">>
  ELSE IF cs = Kingside /\ c = White THEN <<"K">>
  ELSE IF cs = Queenside /\ c = Black THEN <<"q">>
  ELSE IF cs = Queenside /\ c = White THEN <<"Q">>
  ELSE IF cs = None THEN <<"-">>
  ELSE <<>>

\* A Piece is the letter of the position text encoding; upper case = White.
NoPiece == " "
Pawn == "P"
Knight == "N"
Bishop == "B"
Rook == "R"
Queen == "Q"
King == "K"
NormalizedPieces == {Pawn, Knight, Bishop, Rook, Queen, King}
WhitePieces == {"P", "N", "B", "R", "Q", "K"}
BlackPieces == {"p", "n", "b", "r", "q", "k"}

PieceColor(piece) ==
  IF piece \in WhitePieces THEN White
  ELSE IF piece \in BlackPieces THEN Black ELSE NoColor

ToNormalizedPiece(piece) ==
  CASE piece \in {"P", "p"} -> Pawn
    [] piece \in {"N", "n"} -> Knight
    [] piece \in {"B", "b"} -> Bishop
    [] piece \in {"R", "r"} -> Rook
    [] piece \in {"Q", "q"} -> Queen
    [] piece \in {"K", "k"} -> King
    [] OTHER -> NoPiece

ToPiece(kind, c) ==
  IF c = White THEN kind
  ELSE CASE kind = Pawn -> "p" [] kind = Knight -> "n" [] kind = Bishop -> "b"
         [] kind = Rook -> "r" [] kind = Queen -> "q" [] kind = King -> "k"
         [] OTHER -> NoPiece

(***************************************************************************)
(* Squares: index 0 = a1 ... 63 = h8                                       *)
(***************************************************************************)
Squares == 0..63
NoPosition == 0
A1 == 0
E1 == 4
H1 == 7
C1 == 2
G1 == 6
A8 == 56
C8 == 58
E8 == 60
G8 == 62
H8 == 63

\* byte values 'a' + file and '0' + rank + 1; File and Rank are bytes
GetFile(p) == ((p % 8) + 97) % 256
GetRank(p) == ((p \div 8) + 1 + 48) % 256

\* Go integer division truncates towards zero
GoDiv(a, b) ==
  LET aa == IF a < 0 THEN 0 - a ELSE a
      bb == IF b < 0 THEN 0 - b ELSE b
      q == aa \div bb
  IN IF (a < 0) = (b < 0) THEN q ELSE 0 - q

\* the value of Body for the value of e: e is evaluated once and named
Let(e, Body(_)) == CHOOSE r \in {Body(v) : v \in {e}} : TRUE

\* the function f with every value computed
Concrete(f) == f @@ <<>>

RECURSIVE ConcatFrom(_, _)
ConcatFrom(ss, i) == IF i > Len(ss) THEN <<>> ELSE ss[i] \o ConcatFrom(ss, i + 1)

Concat(ss) == Let(<<>> \o ss, LAMBDA v : ConcatFrom(v, 1))

SeqToSet(s) == {s[i] : i \in 1..Len(s)}

OnBoard(f, r) == f \in 0..7 /\ r \in 0..7

\* the squares reached from p by each (file, rank) offset that stays on the board
RECURSIVE Targets(_, _)
Targets(p, ds) ==
  IF ds = <<>> THEN <<>>
  ELSE LET f == (p % 8) + Head(ds)[1]
           r == (p \div 8) + Head(ds)[2]
       IN (IF OnBoard(f, r) THEN <<r * 8 + f>> ELSE <<>>) \o Targets(p, Tail(ds))

\* the ray from p (exclusive) in direction d up to the edge of the board
RECURSIVE FollowVector(_, _)
FollowVector(p, d) ==
  LET f == (p % 8) + d[1]
      r == (p \div 8) + d[2]
  IN IF OnBoard(f, r) THEN <<r * 8 + f>> \o FollowVector(r * 8 + f, d) ELSE <<>>

LineDirs == << <<0, 1>>, <<1, 0>>, <<0, -1>>, <<-1, 0>> >>
DiagonalDirs == << <<1, 1>>, <<1, -1>>, <<-1, -1>>, <<-1, 1>> >>
KnightDirs == << <<1, 2>>, <<2, 1>>, <<2, -1>>, <<1, -2>>,
                 <<-1, -2>>, <<-2, -1>>, <<-2, 1>>, <<-1, 2>> >>
KingDirs == << <<0, 1>>, <<1, 1>>, <<1, 0>>, <<1, -1>>,
               <<0, -1>>, <<-1, -1>>, <<-1, 0>>, <<-1, 1>> >>

Rays(p, dirs) ==
  SelectSeq([i \in 1..Len(dirs) |-> FollowVector(p, dirs[i])], LAMBDA l : l # <<>>)

\* MoveVectors[piece][from]: the rays of a sliding piece, each ordered outwards
MoveVectors ==
  [B |-> Concrete([p \in Squares |-> Rays(p, DiagonalDirs)]),
   R |-> Concrete([p \in Squares |-> Rays(p, LineDirs)]),
   Q |-> Concrete([p \in Squares |-> Rays(p, DiagonalDirs \o LineDirs)])]

\* PieceMoves[piece][from]: fixed target squares; for pawns the quiet advances
PieceMoves ==
  [N |-> Concrete([p \in Squares |-> Targets(p, KnightDirs)]),
   P |-> Concrete([p \in Squares |->
           Targets(p, IF p \div 8 = 1 THEN << <<0, 1>>, <<0, 2>> >> ELSE << <<0, 1>> >>)]),
   p |-> Concrete([p \in Squares |->
           Targets(p, IF p \div 8 = 6 THEN << <<0, -1>>, <<0, -2>> >> ELSE << <<0, -1>> >>)])]

GetKingMoves == Concrete([p \in Squares |-> Targets(p, KingDirs)])

\* PawnAttacks[color][from]: the (at most two) diagonal targets of a pawn
PawnAttacks ==
  << Concrete([p \in Squares |-> Targets(p, << <<1, -1>>, <<-1, -1>> >>)]),
     Concrete([p \in Squares |-> Targets(p, << <<-1, 1>>, <<1, 1>> >>)]) >>

(***************************************************************************)
(* Moves                                                                   *)
(***************************************************************************)
NewMove(from, to) == [From |-> from, To |-> to, Promote |-> NoPiece]

\* nil (here <<>>) unless the move reaches the farthest rank
ToPromotions(move) ==
  IF move.To \div 8 = 7 /\ move.From \div 8 = 6
    THEN [i \in 1..4 |-> [move EXCEPT !.Promote = <<"N", "Q", "R", "B">>[i]]]
  ELSE IF move.To \div 8 = 0 /\ move.From \div 8 = 1
    THEN [i \in 1..4 |-> [move EXCEPT !.Promote = <<"n", "q", "r", "b">>[i]]]
  ELSE <<>>

(***************************************************************************)
(* Position (type FEN): Board, Pieces index, ToMove, castle status,        *)
(* EnPassantVulnerable, HalfmoveClock, Fullmove, Line                      *)
(***************************************************************************)
\* the order in which ParseFEN meets the squares: rank 8 down to 1, file a to h
FENOrder == <<>> \o [i \in 1..64 |-> (7 - ((i - 1) \div 8)) * 8 + ((i - 1) % 8)]

NewPiecePositions == << [k \in NormalizedPieces |-> <<>>], [k \in NormalizedPieces |-> <<>>] >>

\* the index ParseFEN builds while it fills the board (AddPosition per piece met)
PiecesFromBoard(board) ==
  << Concrete([k \in NormalizedPieces |->
                SelectSeq(FENOrder, LAMBDA sq : board[sq] = ToPiece(k, Black))]),
     Concrete([k \in NormalizedPieces |->
                SelectSeq(FENOrder, LAMBDA sq : board[sq] = ToPiece(k, White))]) >>

\* the position ParseFEN returns for a well-formed text with the given fields
ParsedFEN(board, toMove, wCastle, bCastle, half, full) ==
  [Board |-> board,
   Pieces |-> PiecesFromBoard(board),
   ToMove |-> toMove,
   WhiteCastleStatus |-> wCastle,
   BlackCastleStatus |-> bCastle,
   EnPassantVulnerable |-> NoPosition,
   HalfmoveClock |-> half,
   Fullmove |-> full,
   Line |-> <<>>]

Positions(f, color, kind) == f.Pieces[color][kind]

GetKingPos(f, color) == Head(f.Pieces[color][King])

\* one ray of a sliding piece: the first square satisfying cond is a hit and
\* ends the ray; an empty square not satisfying it is skipped; a piece ends it
RECURSIVE WalkLine(_, _, _, _)
WalkLine(f, cond, fromPos, line) ==
  IF line = <<>> THEN <<>>
  ELSE IF Head(line) \in cond THEN <<NewMove(fromPos, Head(line))>>
  ELSE IF f.Board[Head(line)] = NoPiece THEN WalkLine(f, cond, fromPos, Tail(line))
  ELSE <<>>

\* GetAttacksOnCondition with the expansion of promotions left out
GetAttacksOnConditionPlain(f, cond, color) ==
  LET pawns == Positions(f, color, Pawn)
      pawnAttack(pawnPos, p) ==
        IF p \in cond
          THEN LET move == NewMove(pawnPos, p)
                   promotions == ToPromotions(move)
               IN <<move>>
          ELSE <<>>
      pawnMoves(pawnPos) ==
        LET positions == PawnAttacks[color][pawnPos]
        IN Concat([j \in 1..Len(positions) |-> pawnAttack(pawnPos, positions[j])])
      knights == Positions(f, color, Knight)
      knightMoves(fromPos) ==
        LET tos == PieceMoves[Knight][fromPos]
        IN Concat([j \in 1..Len(tos) |->
                     IF tos[j] \in cond THEN <<NewMove(fromPos, tos[j])>> ELSE <<>>])
      sliderMoves(piece, fromPos) ==
        LET lines == MoveVectors[piece][fromPos]
        IN Concat([j \in 1..Len(lines) |-> WalkLine(f, cond, fromPos, lines[j])])
      sliders(piece) ==
        LET froms == Positions(f, color, piece)
        IN Concat([i \in 1..Len(froms) |-> sliderMoves(piece, froms[i])])
  IN Concat([i \in 1..Len(pawns) |-> pawnMoves(pawns[i])])
     \o Concat([i \in 1..Len(knights) |-> knightMoves(knights[i])])
     \o sliders(Bishop) \o sliders(Rook) \o sliders(Queen)

\* cond is the set of squares on which the predicate holds
GetAttacksOnCondition(f, cond, color) ==
  LET pawns == Positions(f, color, Pawn)
      pawnAttack(pawnPos, p) ==
        IF p \in cond
          THEN LET move == NewMove(pawnPos, p)
                   promotions == ToPromotions(move)
               IN IF promotions = <<>> THEN <<move>> ELSE promotions
          ELSE <<>>
      pawnMoves(pawnPos) ==
        LET positions == PawnAttacks[color][pawnPos]
        IN Concat([j \in 1..Len(positions) |-> pawnAttack(pawnPos, positions[j])])
      knights == Positions(f, color, Knight)
      knightMoves(fromPos) ==
        LET tos == PieceMoves[Knight][fromPos]
        IN Concat([j \in 1..Len(tos) |->
                     IF tos[j] \in cond THEN <<NewMove(fromPos, tos[j])>> ELSE <<>>])
      sliderMoves(piece, fromPos) ==
        LET lines == MoveVectors[piece][fromPos]
        IN Concat([j \in 1..Len(lines) |-> WalkLine(f, cond, fromPos, lines[j])])
      sliders(piece) ==
        LET froms == Positions(f, color, piece)
        IN Concat([i \in 1..Len(froms) |-> sliderMoves(piece, froms[i])])
  IN Concat([i \in 1..Len(pawns) |-> pawnMoves(pawns[i])])
     \o Concat([i \in 1..Len(knights) |-> knightMoves(knights[i])])
     \o sliders(Bishop) \o sliders(Rook) \o sliders(Queen)

GetAttacks(f, color) ==
  Let({p \in Squares : f.Board[p] # NoPiece /\ PieceColor(f.Board[p]) = Opposite(color)},
      LAMBDA cond : GetAttacksOnCondition(f, cond, color))

AttacksSquare(f, color, square) ==
  Len(GetAttacksOnCondition(f, {square}, color)) > 0

GetIncomingAttacks(f) == GetAttacks(f, Opposite(f.ToMove))

\* the attacks of the opponent that land on the king of the side to move
Checks(f) ==
  SelectSeq(GetIncomingAttacks(f), LAMBDA attack : attack.To = GetKingPos(f, f.ToMove))

Abs(x) == IF x < 0 THEN 0 - x ELSE x

\* the walk aborting after more than 6 steps
RECURSIVE BlockWalkSixSteps(_, _, _, _, _)
BlockWalkSixSteps(pos, from, step, i, blocks) ==
  IF pos = from THEN [panic |-> FALSE, blocks |-> blocks]
  ELSE LET next == pos + step
       IN IF i + 1 > 6 THEN [panic |-> TRUE, blocks |-> blocks \cup {next}]
          ELSE BlockWalkSixSteps(next, from, step, i + 1, blocks \cup {next})

\* the walk from the king (check.To) towards the checker (check.From); the
\* result is the blocks map, or the abort after more than 7 steps
RECURSIVE BlockWalk(_, _, _, _, _)
BlockWalk(pos, from, step, i, blocks) ==
  IF pos = from THEN [panic |-> FALSE, blocks |-> blocks]
  ELSE LET next == pos + step
       IN IF i + 1 > 7 THEN [panic |-> TRUE, blocks |-> blocks \cup {next}]
          ELSE BlockWalk(next, from, step, i + 1, blocks \cup {next})

BlockSquares(check) ==
  LET diffFile == GetFile(check.From) - GetFile(check.To)
      diffRank == GetRank(check.From) - GetRank(check.To)
      m0 == IF diffFile < 0 THEN diffFile * (0 - 1) ELSE diffFile
      maxDiff == IF diffRank > m0 THEN diffRank
                 ELSE IF (diffRank * (0 - 1)) > m0 THEN diffRank * (0 - 1) ELSE m0
      normDiffFile == GoDiv(diffFile, maxDiff)
      normDiffRank == GoDiv(diffRank, maxDiff)
  IN BlockWalk(check.To, check.From, normDiffFile + (normDiffRank * 8), 0, {})

KingEscapes(f) ==
  LET kings == Positions(f, f.ToMove, King)
      escapes(kingPos) ==
        LET tos == GetKingMoves[kingPos]
        IN Concat([j \in 1..Len(tos) |->
             IF (f.Board[tos[j]] = NoPiece \/ PieceColor(f.Board[tos[j]]) = Opposite(f.ToMove))
                /\ ~AttacksSquare(f, Opposite(f.ToMove), tos[j])
               THEN <<NewMove(kingPos, tos[j])>> ELSE <<>>])
  IN Concat([i \in 1..Len(kings) |-> escapes(kings[i])])

\* TRUE when validMovesInCheck aborts (panic "wtf") instead of returning
validMovesInCheckPanics(f, checks) ==
  /\ Len(checks) = 1
  /\ ToNormalizedPiece(f.Board[checks[1].From]) # Knight
  /\ BlockSquares(checks[1]).panic

\* validMovesInCheck with the test on the number of checks relaxed to "at least one"
validMovesInCheckAnyCount(f, checks) ==
  LET result == KingEscapes(f)
  IN IF Len(checks) >= 1
       THEN LET check == checks[1]
            IN IF ToNormalizedPiece(f.Board[check.From]) = Knight THEN result
               ELSE result \o Let(BlockSquares(check).blocks,
                                  LAMBDA blocks : GetAttacksOnCondition(f, blocks, f.ToMove))
       ELSE result

validMovesInCheck(f, checks) ==
  LET result == KingEscapes(f)
  IN IF Len(checks) = 1
       THEN LET check == checks[1]
                attackingPiece == f.Board[check.From]
            IN IF ToNormalizedPiece(attackingPiece) = Knight THEN result
               ELSE result \o Let(BlockSquares(check).blocks,
                                  LAMBDA blocks : GetAttacksOnCondition(f, blocks, f.ToMove))
       ELSE result

IsMate(f) ==
  Let(Checks(f), LAMBDA checks :
    IF Len(checks) > 0 THEN Len(validMovesInCheck(f, checks)) = 0 ELSE FALSE)

\* QuietMoves with the test that the king's target square is empty left out
QuietMovesKingAnywhere(f) ==
  LET pawns == Positions(f, f.ToMove, Pawn)
      pawnMoves(pawnPos) ==
        LET tos == PieceMoves[f.Board[pawnPos]][pawnPos]
        IN Concat([j \in 1..Len(tos) |->
             IF f.Board[tos[j]] = NoPiece
               THEN LET move == NewMove(pawnPos, tos[j])
                        promotions == ToPromotions(move)
                    IN IF promotions = <<>> THEN <<move>> ELSE promotions
               ELSE <<>>])
      knights == Positions(f, f.ToMove, Knight)
      knightMoves(fromPos) ==
        LET tos == PieceMoves[Knight][fromPos]
        IN Concat([j \in 1..Len(tos) |->
             IF f.Board[tos[j]] = NoPiece THEN <<NewMove(fromPos, tos[j])>> ELSE <<>>])
      sliders(piece) ==
        LET froms == Positions(f, f.ToMove, piece)
            \* cond = every occupied square is never a hit: stop at the first piece
            walk(fromPos, line) ==
              LET occ == {j \in 1..Len(line) : f.Board[line[j]] # NoPiece}
                  n == IF occ = {} THEN Len(line)
                       ELSE (CHOOSE j \in occ : \A k \in occ : j <= k) - 1
              IN [j \in 1..n |-> NewMove(fromPos, line[j])]
            from(fromPos) ==
              LET lines == MoveVectors[piece][fromPos]
              IN Concat([j \in 1..Len(lines) |-> walk(fromPos, lines[j])])
        IN Concat([i \in 1..Len(froms) |-> from(froms[i])])
      kingPos == GetKingPos(f, f.ToMove)
      kingTos == GetKingMoves[kingPos]
  IN Concat([i \in 1..Len(pawns) |-> pawnMoves(pawns[i])])
     \o Concat([i \in 1..Len(knights) |-> knightMoves(knights[i])])
     \o sliders(Bishop) \o sliders(Rook) \o sliders(Queen)
     \o Concat([j \in 1..Len(kingTos) |->
          <<NewMove(kingPos, kingTos[j])>>])

QuietMoves(f) ==
  LET pawns == Positions(f, f.ToMove, Pawn)
      pawnMoves(pawnPos) ==
        LET tos == PieceMoves[f.Board[pawnPos]][pawnPos]
        IN Concat([j \in 1..Len(tos) |->
             IF f.Board[tos[j]] = NoPiece
               THEN LET move == NewMove(pawnPos, tos[j])
                        promotions == ToPromotions(move)
                    IN IF promotions = <<>> THEN <<move>> ELSE promotions
               ELSE <<>>])
      knights == Positions(f, f.ToMove, Knight)
      knightMoves(fromPos) ==
        LET tos == PieceMoves[Knight][fromPos]
        IN Concat([j \in 1..Len(tos) |->
             IF f.Board[tos[j]] = NoPiece THEN <<NewMove(fromPos, tos[j])>> ELSE <<>>])
      sliders(piece) ==
        LET froms == Positions(f, f.ToMove, piece)
            \* cond = every occupied square is never a hit: stop at the first piece
            walk(fromPos, line) ==
              LET occ == {j \in 1..Len(line) : f.Board[line[j]] # NoPiece}
                  n == IF occ = {} THEN Len(line)
                       ELSE (CHOOSE j \in occ : \A k \in occ : j <= k) - 1
              IN [j \in 1..n |-> NewMove(fromPos, line[j])]
            from(fromPos) ==
              LET lines == MoveVectors[piece][fromPos]
              IN Concat([j \in 1..Len(lines) |-> walk(fromPos, lines[j])])
        IN Concat([i \in 1..Len(froms) |-> from(froms[i])])
      kingPos == GetKingPos(f, f.ToMove)
      kingTos == GetKingMoves[kingPos]
  IN Concat([i \in 1..Len(pawns) |-> pawnMoves(pawns[i])])
     \o Concat([i \in 1..Len(knights) |-> knightMoves(knights[i])])
     \o sliders(Bishop) \o sliders(Rook) \o sliders(Queen)
     \o Concat([j \in 1..Len(kingTos) |->
          IF f.Board[kingTos[j]] = NoPiece THEN <<NewMove(kingPos, kingTos[j])>> ELSE <<>>])

ValidMoves(f) ==
  Let(Checks(f), LAMBDA checks :
    IF Len(checks) > 0 THEN validMovesInCheck(f, checks)
    ELSE GetAttacks(f, f.ToMove) \o QuietMoves(f))

\* the package main copy of the move generator: the king loop of
\* validMovesInCheck has no test of the target square's occupant
KingEscapesMain(f) ==
  LET kings == Positions(f, f.ToMove, King)
      escapes(kingPos) ==
        LET tos == GetKingMoves[kingPos]
        IN Concat([j \in 1..Len(tos) |->
             IF ~AttacksSquare(f, Opposite(f.ToMove), tos[j])
               THEN <<NewMove(kingPos, tos[j])>> ELSE <<>>])
  IN Concat([i \in 1..Len(kings) |-> escapes(kings[i])])

validMovesInCheckMain(f, checks) ==
  LET result == KingEscapesMain(f)
  IN IF Len(checks) = 1
       THEN LET check == checks[1]
                attackingPiece == f.Board[check.From]
            IN IF ToNormalizedPiece(attackingPiece) = Knight THEN result
               ELSE result \o Let(BlockSquares(check).blocks,
                                  LAMBDA blocks : GetAttacksOnCondition(f, blocks, f.ToMove))
       ELSE result

\* the quiet moves of the package main copy: pawn advances computed from the
\* rank, one square per ray for the sliding pieces
QuietMovesMain(f) ==
  LET pawns == Positions(f, f.ToMove, Pawn)
      skips(pawnPos) ==
        IF f.ToMove = White
          THEN <<1>> \o (IF GetRank(pawnPos) = 50 THEN <<2>> ELSE <<>>)
          ELSE <<0 - 1>> \o (IF GetRank(pawnPos) = 54 THEN <<0 - 2>> ELSE <<>>)
      advance(pawnPos, targetPos) ==
        IF f.Board[targetPos] = NoPiece
          THEN IF f.ToMove = White /\ GetRank(targetPos) = 56
                 THEN [i \in 1..4 |-> [NewMove(pawnPos, targetPos) EXCEPT
                                         !.Promote = <<"N", "Q", "R", "B">>[i]]]
               ELSE IF f.ToMove = Black /\ GetRank(targetPos) = 49
                 THEN [i \in 1..4 |-> [NewMove(pawnPos, targetPos) EXCEPT
                                         !.Promote = <<"n", "q", "r", "b">>[i]]]
               ELSE <<NewMove(pawnPos, targetPos)>>
          ELSE <<>>
      pawnMoves(pawnPos) ==
        LET sk == skips(pawnPos)
        IN Concat([j \in 1..Len(sk) |-> advance(pawnPos, pawnPos + sk[j] * 8)])
      knights == Positions(f, f.ToMove, Knight)
      knightMoves(fromPos) ==
        LET tos == PieceMoves[Knight][fromPos]
        IN Concat([j \in 1..Len(tos) |->
             IF f.Board[tos[j]] = NoPiece THEN <<NewMove(fromPos, tos[j])>> ELSE <<>>])
      firstSquares(fromPos, lines) ==
        Concat([j \in 1..Len(lines) |->
             IF f.Board[lines[j][1]] = NoPiece THEN <<NewMove(fromPos, lines[j][1])>>
             ELSE <<>>])
      sliders(piece) ==
        LET froms == Positions(f, f.ToMove, piece)
        IN Concat([i \in 1..Len(froms) |->
                     firstSquares(froms[i], MoveVectors[piece][froms[i]])])
      kings == Positions(f, f.ToMove, King)
      kingMoves(kingPos) ==
        LET tos == GetKingMoves[kingPos]
        IN Concat([j \in 1..Len(tos) |->
             IF f.Board[tos[j]] = NoPiece THEN <<NewMove(kingPos, tos[j])>> ELSE <<>>])
  IN Concat([i \in 1..Len(pawns) |-> pawnMoves(pawns[i])])
     \o Concat([i \in 1..Len(knights) |-> knightMoves(knights[i])])
     \o sliders(Bishop) \o sliders(Rook) \o sliders(Queen)
     \o Concat([i \in 1..Len(kings) |-> kingMoves(kings[i])])

ValidMovesMain(f) ==
  Let(Checks(f), LAMBDA checks :
    IF Len(checks) > 0 THEN validMovesInCheckMain(f, checks)
    ELSE GetAttacks(f, f.ToMove) \o QuietMovesMain(f))

InCheck(f) == AttacksSquare(f, Opposite(f.ToMove), GetKingPos(f, f.ToMove))

RemoveSq(positions, sq) == SelectSeq(positions, LAMBDA p : p # sq)

\* PiecePositions.ApplyMove: remove the moving piece from its origin and the
\* captured piece from the destination, then add the piece on the destination
PiecesApplyMove(pieces, c, move, movingPiece, capturedPiece) ==
  LET removed(col) ==
        Concrete([k \in NormalizedPieces |->
          IF col = c /\ k = movingPiece THEN RemoveSq(pieces[col][k], move.From)
          ELSE IF col = Opposite(c) /\ k = capturedPiece THEN RemoveSq(pieces[col][k], move.To)
          ELSE pieces[col][k]])
      placed == IF move.Promote # NoPiece THEN ToNormalizedPiece(move.Promote) ELSE movingPiece
  IN [<<removed(Black), removed(White)>> EXCEPT ![c][placed] = Append(@, move.To)]

\* CastleAfter with the king's case left out
CastleAfterKingKeeps(status, movingPiece, move, rook, king, queenRookHome, kingRookHome) ==
  IF movingPiece = rook
    THEN IF move.From = queenRookHome
           THEN (IF status = Both THEN Kingside ELSE IF status = Queenside THEN None ELSE status)
         ELSE IF move.From = kingRookHome
           THEN (IF status = Both THEN Queenside ELSE IF status = Kingside THEN None ELSE status)
         ELSE status
  ELSE IF movingPiece = king THEN status
  ELSE status

\* the castle status of the side of movingPiece after it left move.From
CastleAfter(status, movingPiece, move, rook, king, queenRookHome, kingRookHome) ==
  IF movingPiece = rook
    THEN IF move.From = queenRookHome
           THEN (IF status = Both THEN Kingside ELSE IF status = Queenside THEN None ELSE status)
         ELSE IF move.From = kingRookHome
           THEN (IF status = Both THEN Queenside ELSE IF status = Kingside THEN None ELSE status)
         ELSE status
  ELSE IF movingPiece = king THEN None
  ELSE status

\* TRUE when ApplyMove aborts (panic "invalid castle") instead of returning
ApplyMovePanics(f, move) ==
  LET movingPiece == f.Board[move.From]
  IN \/ /\ movingPiece = "k" /\ move.From = E8 /\ move.To = G8
        /\ f.BlackCastleStatus # Kingside /\ f.BlackCastleStatus # Both
     \/ /\ movingPiece = "k" /\ move.From = E8 /\ move.To = C8
        /\ f.BlackCastleStatus # Queenside /\ f.BlackCastleStatus # Both
     \/ /\ movingPiece = "K" /\ move.From = E1 /\ move.To = G1
        /\ f.WhiteCastleStatus # Kingside /\ f.WhiteCastleStatus # Both
     \/ /\ movingPiece = "K" /\ move.From = E1 /\ move.To = C1
        /\ f.WhiteCastleStatus # Queenside /\ f.WhiteCastleStatus # Both

ApplyMove(f, move) ==
  LET line == Append(f.Line, move)
      movingPiece == f.Board[move.From]
      capturedPiece == ToNormalizedPiece(f.Board[move.To])
      normalizedMovingPiece == ToNormalizedPiece(movingPiece)
      board == [f.Board EXCEPT ![move.From] = NoPiece,
                               ![move.To] = IF move.Promote # NoPiece THEN move.Promote
                                            ELSE movingPiece]
      wCastle == CastleAfter(f.WhiteCastleStatus, movingPiece, move, "R", "K", A1, H1)
      bCastle == CastleAfter(f.BlackCastleStatus, movingPiece, move, "r", "k", A8, H8)
      pieces == PiecesApplyMove(f.Pieces, f.ToMove, move, normalizedMovingPiece, capturedPiece)
      fullMove == IF f.ToMove = Black THEN f.Fullmove + 1 ELSE f.Fullmove
  IN [Board |-> board,
      Pieces |-> pieces,
      ToMove |-> Opposite(f.ToMove),
      WhiteCastleStatus |-> wCastle,
      BlackCastleStatus |-> bCastle,
      EnPassantVulnerable |-> NoPosition,
      HalfmoveClock |-> f.HalfmoveClock + 1,
      Fullmove |-> fullMove,
      Line |-> line]

\* ApplyMove of the package main copy of the position type: the piece index is
\* rebuilt by a scan of the old one, the castle status and Fullmove are copied
ApplyMoveMain(f, move) ==
  LET line == Append(f.Line, move)
      movingPiece == f.Board[move.From]
      capturedPiece == ToNormalizedPiece(f.Board[move.To])
      normalizedMovingPiece == ToNormalizedPiece(movingPiece)
      board == [f.Board EXCEPT ![move.From] = NoPiece,
                               ![move.To] = IF move.Promote # NoPiece THEN move.Promote
                                            ELSE movingPiece]
      scanned(color, piece) ==
        LET old == f.Pieces[color][piece]
        IN Concat([i \in 1..Len(old) |->
             IF color = f.ToMove /\ piece = normalizedMovingPiece /\ old[i] = move.From
               THEN (IF move.Promote = NoPiece THEN <<move.To>> ELSE <<>>)
             ELSE IF color # f.ToMove /\ piece = capturedPiece THEN <<>>
             ELSE <<old[i]>>])
      rebuilt == << Concrete([k \in NormalizedPieces |-> scanned(Black, k)]),
                    Concrete([k \in NormalizedPieces |-> scanned(White, k)]) >>
      pieces == IF move.Promote # NoPiece
                  THEN [rebuilt EXCEPT ![f.ToMove][ToNormalizedPiece(move.Promote)] =
                                          Append(@, move.To)]
                  ELSE rebuilt
  IN [Board |-> board,
      Pieces |-> pieces,
      ToMove |-> Opposite(f.ToMove),
      WhiteCastleStatus |-> f.WhiteCastleStatus,
      BlackCastleStatus |-> f.BlackCastleStatus,
      EnPassantVulnerable |-> NoPosition,
      HalfmoveClock |-> f.HalfmoveClock + 1,
      Fullmove |-> f.Fullmove,
      Line |-> line]

\* Returns new FENs for every valid move from the current FEN
NextFENs(f) ==
  Let(ValidMoves(f), LAMBDA moves : <<>> \o [i \in 1..Len(moves) |-> ApplyMove(f, moves[i])])

(***************************************************************************)
(* Text forms: Position.String, Move.String, FEN.FENString                 *)
(***************************************************************************)
FileChars == <<"a", "b", "c", "d", "e", "f", "g", "h">>
DigitChars == <<"1", "2", "3", "4", "5", "6", "7", "8">>

\* a text is a sequence of bytes; a byte is written as its character, or as
\* "x" and its two hexadecimal digits
ByteChars ==
  <<"x00", "x01", "x02", "x03", "x04", "x05", "x06", "x07", "x08", "x09", "x0A", "x0B", "x0C", "x0D", "x0E", "x0F",
     "x10", "x11", "x12", "x13", "x14", "x15", "x16", "x17", "x18", "x19", "x1A", "x1B", "x1C", "x1D", "x1E", "x1F",
     " ", "!", "x22", "#", "$", "%", "&", "'", "(", ")", "*", "+", ",", "-", ".", "/",
     "0", "1", "2", "3", "4", "5", "6", "7", "8", "9", ":", ";", "<", "=", ">", "?",
     "@", "A", "B", "C", "D", "E", "F", "G", "H", "I", "J", "K", "L", "M", "N", "O",
     "P", "Q", "R", "S", "T", "U", "V", "W", "X", "Y", "Z", "[", "x5C", "]", "^", "_",
     "x60", "a", "b", "c", "d", "e", "f", "g", "h", "i", "j", "k", "l", "m", "n", "o",
     "p", "q", "r", "s", "t", "u", "v", "w", "x", "y", "z", "{", "|", "}", "~", "x7F",
     "x80", "x81", "x82", "x83", "x84", "x85", "x86", "x87", "x88", "x89", "x8A", "x8B", "x8C", "x8D", "x8E", "x8F",
     "x90", "x91", "x92", "x93", "x94", "x95", "x96", "x97", "x98", "x99", "x9A", "x9B", "x9C", "x9D", "x9E", "x9F",
     "xA0", "xA1", "xA2", "xA3", "xA4", "xA5", "xA6", "xA7", "xA8", "xA9", "xAA", "xAB", "xAC", "xAD", "xAE", "xAF",
     "xB0", "xB1", "xB2", "xB3", "xB4", "xB5", "xB6", "xB7", "xB8", "xB9", "xBA", "xBB", "xBC", "xBD", "xBE", "xBF",
     "xC0", "xC1", "xC2", "xC3", "xC4", "xC5", "xC6", "xC7", "xC8", "xC9", "xCA", "xCB", "xCC", "xCD", "xCE", "xCF",
     "xD0", "xD1", "xD2", "xD3", "xD4", "xD5", "xD6", "xD7", "xD8", "xD9", "xDA", "xDB", "xDC", "xDD", "xDE", "xDF",
     "xE0", "xE1", "xE2", "xE3", "xE4", "xE5", "xE6", "xE7", "xE8", "xE9", "xEA", "xEB", "xEC", "xED", "xEE", "xEF",
     "xF0", "xF1", "xF2", "xF3", "xF4", "xF5", "xF6", "xF7", "xF8", "xF9", "xFA", "xFB", "xFC", "xFD", "xFE", "xFF" >>

Chr(b) == ByteChars[b + 1]

Ord(ch) == CHOOSE b \in 0..255 : ByteChars[b + 1] = ch

PositionString(p) ==
  IF NoPosition = p THEN <<"-">>
  ELSE <<Chr(GetFile(p)), Chr(GetRank(p))>>

\* PositionFromFileRank(f, r): f and r are bytes
PositionFromFileRank(f, r) ==
  LET ff == (f - 97) % 256
      rr == (r - 49) % 256
  IN IF ff > 7 \/ rr > 7 THEN NoPosition
     ELSE 2 ^ (((rr * 8) % 256) + ff)

\* parsePosition(pstr): the position and whether the text names a square
parsePosition(pstr) ==
  IF Len(pstr) # 2 THEN [pos |-> 0, ok |-> FALSE]
  ELSE LET file0 == Ord(pstr[1])
           lower == file0 \in 97..104
           upper == file0 \in 65..72
           file == IF upper THEN (file0 + 32) % 256 ELSE file0
           rank == Ord(pstr[2])
       IN IF ~(lower \/ upper) THEN [pos |-> 0, ok |-> FALSE]
          ELSE IF rank \notin 49..56 THEN [pos |-> 0, ok |-> FALSE]
          ELSE [pos |-> PositionFromFileRank(file, rank), ok |-> TRUE]

\* ParsePosition(pstr): the position, or the error
ParsePosition(pstr) ==
  LET r == parsePosition(pstr)
  IN IF ~r.ok THEN [status |-> "error", err |-> "pgn: invalid position string"]
     ELSE [status |-> "ok", pos |-> r.pos]

\* strconv.Itoa and the %d verb of fmt.Sprintf
RECURSIVE ItoaNat(_)
ItoaNat(n) == IF n < 10 THEN <<Chr(48 + n)>> ELSE ItoaNat(n \div 10) \o <<Chr(48 + (n % 10))>>

Itoa(n) == IF n < 0 THEN <<"-">> \o ItoaNat(0 - n) ELSE ItoaNat(n)

\* the %d verb of fmt.Sscanf on one field: an optional sign and decimal digits
RECURSIVE DigitsValue(_, _, _)
DigitsValue(tok, i, acc) ==
  IF i > Len(tok) THEN acc ELSE DigitsValue(tok, i + 1, acc * 10 + (Ord(tok[i]) - 48))

ScanInt(tok) ==
  LET signed == Len(tok) > 0 /\ tok[1] \in {"-", "+"}
      digits == IF signed THEN Tail(tok) ELSE tok
  IN IF digits = <<>> \/ \E i \in 1..Len(digits) : Ord(digits[i]) \notin 48..57
       THEN [ok |-> FALSE, val |-> 0]
       ELSE [ok |-> TRUE,
             val |-> IF signed /\ tok[1] = "-" THEN 0 - DigitsValue(digits, 1, 0)
                     ELSE DigitsValue(digits, 1, 0)]

MoveString(m) ==
  PositionString(m.From) \o PositionString(m.To)
    \o (IF m.Promote = NoPiece THEN <<>> ELSE <<m.Promote>>)

LineString(line) == [i \in 1..Len(line) |-> MoveString(line[i])]

\* the text of rank y (0-based): pieces as letters, runs of empty squares as digits
RECURSIVE FENRank(_, _, _, _)
FENRank(board, y, x, empty) ==
  IF x = 8 THEN (IF empty # 0 THEN <<DigitChars[empty]>> ELSE <<>>)
  ELSE IF board[y * 8 + x] # NoPiece
    THEN (IF empty # 0 THEN <<DigitChars[empty]>> ELSE <<>>)
           \o <<board[y * 8 + x]>> \o FENRank(board, y, x + 1, 0)
  ELSE FENRank(board, y, x + 1, empty + 1)

Trim(str, ch) ==
  LET keep == {i \in 1..Len(str) : str[i] # ch}
  IN IF keep = {} THEN <<>>
     ELSE LET lo == CHOOSE i \in keep : \A j \in keep : i <= j
              hi == CHOOSE i \in keep : \A j \in keep : i >= j
          IN SubSeq(str, lo, hi)

FENString(f) ==
  LET forStr == Concat([i \in 1..8 |->
                  FENRank(f.Board, 8 - i, 0, 0) \o (IF 8 - i # 0 THEN <<"/">> ELSE <<>>)])
      cs0 == CastleStatusString(f.WhiteCastleStatus, White)
               \o CastleStatusString(f.BlackCastleStatus, Black)
      cs1 == IF cs0 = <<"-", "-">> THEN <<"-">> ELSE cs0
      castleStatus == IF cs1 # <<"-">> /\ "-" \in SeqToSet(cs1) THEN Trim(cs1, "-") ELSE cs1
      enPassant == IF f.EnPassantVulnerable # 0 THEN PositionString(f.EnPassantVulnerable)
                   ELSE <<"-">>
  IN <<forStr, <<ColorString(f.ToMove)>>, castleStatus, enPassant,
       Itoa(f.HalfmoveClock), Itoa(f.Fullmove)>>

\* the column reached after the first i bytes of the board field
RECURSIVE ColAfter(_, _)
ColAfter(forStr, i) ==
  IF i = 0 THEN 0
  ELSE IF forStr[i] = "/" THEN 0
  ELSE IF Ord(forStr[i]) \in 49..56 THEN ColAfter(forStr, i - 1) + (Ord(forStr[i]) - 48)
  ELSE ColAfter(forStr, i - 1) + 1

\* the row reached after the first i bytes of the board field
RowAfter(forStr, i) == 7 - Cardinality({j \in 1..i : forStr[j] = "/"})

\* byte i of the board field is stored as a piece
IsPieceByte(forStr, i) == forStr[i] # "/" /\ Ord(forStr[i]) \notin 49..56

\* pos := y*8 + x for the piece byte i
PieceSquare(forStr, i) == RowAfter(forStr, i - 1) * 8 + ColAfter(forStr, i - 1)

\* ParseFEN(fenstr), for the text split into its fields at white space (the
\* number fields drawn here are decimal numerals or hold no digit at all):
\* an error, a panic, or the position. Pieces.AddPosition of a byte that is no
\* piece either panics or adds nothing (unknownPanics).
ParseFEN(fenstr, unknownPanics) ==
  IF Len(fenstr) < 6 \/ ~ScanInt(fenstr[5]).ok \/ ~ScanInt(fenstr[6]).ok
    THEN [status |-> "error", err |-> "scan"]
  ELSE IF fenstr[2] # <<"w">> /\ fenstr[2] # <<"b">>
    THEN [status |-> "error", err |-> "pgn: invalid color"]
  ELSE IF fenstr[4] # <<"-">> /\ ParsePosition(fenstr[4]).status = "error"
    THEN [status |-> "error", err |-> "pgn: invalid position string"]
  ELSE
    LET forStr == fenstr[1]
        castleStr == SeqToSet(fenstr[3])
        black0 == IF "k" \in castleStr THEN Kingside ELSE None
        black == IF "q" \in castleStr
                   THEN (IF black0 = Kingside THEN Both ELSE Queenside) ELSE black0
        white0 == IF "K" \in castleStr THEN Kingside ELSE None
        white == IF "Q" \in castleStr
                   THEN (IF white0 = Kingside THEN Both ELSE Queenside) ELSE white0
        enPassant == IF fenstr[4] = <<"-">> THEN NoPosition ELSE ParsePosition(fenstr[4]).pos
        pieceBytes == {i \in 1..Len(forStr) : IsPieceByte(forStr, i)}
        offBoard == {i \in pieceBytes : PieceSquare(forStr, i) \notin Squares}
        unknown == {i \in pieceBytes : PieceColor(forStr[i]) = NoColor}
        faults == offBoard \cup (IF unknownPanics THEN unknown ELSE {})
        writers(sq) == {i \in pieceBytes : PieceSquare(forStr, i) = sq}
        board == Concrete([sq \in Squares |->
                   IF writers(sq) = {} THEN NoPiece
                   ELSE forStr[CHOOSE i \in writers(sq) : \A j \in writers(sq) : j <= i]])
        listed(c, k) ==
          Concat([i \in 1..Len(forStr) |->
             IF i \in pieceBytes /\ forStr[i] = ToPiece(k, c) THEN <<PieceSquare(forStr, i)>>
             ELSE <<>>])
        pieces == << Concrete([k \in NormalizedPieces |-> listed(Black, k)]),
                     Concrete([k \in NormalizedPieces |-> listed(White, k)]) >>
    IN IF faults # {} THEN [status |-> "panic"]
       ELSE [status |-> "ok",
             fen |-> [Board |-> board,
                      Pieces |-> pieces,
                      ToMove |-> IF fenstr[2] = <<"w">> THEN White ELSE Black,
                      WhiteCastleStatus |-> white,
                      BlackCastleStatus |-> black,
                      EnPassantVulnerable |-> enPassant,
                      HalfmoveClock |-> ScanInt(fenstr[5]).val,
                      Fullmove |-> ScanInt(fenstr[6]).val,
                      Line |-> <<>>]]

(***************************************************************************)
(* Evaluation tree: a node per inserted line                               *)
(***************************************************************************)
PosInf == 1000000
NegInf == 0 - PosInf
MateScore == 58008
NoMove == [From |-> 0, To |-> 0, Promote |-> "nil"]

NewEvalTreeNode(score) == [Score |-> score, Replies |-> <<>>, BestLine |-> NoMove]

\* NewEvalTree(nil, score): a root without replies
NewEvalTree(score) == <<>> :> NewEvalTreeNode(score)

\* Insert(line, score): extend the tree along line, creating the missing
\* nodes, and record score at the node of line.  A node's BestLine is the best
\* reply seen so far: a reply becomes it when the node has none yet or when the
\* score recorded for the reply is greater than the one of the current BestLine
RECURSIVE InsertPath(_, _, _)
InsertPath(t, line, n) ==
  IF n > Len(line) THEN t
  ELSE LET pre == SubSeq(line, 1, n)
           par == SubSeq(line, 1, n - 1)
       IN IF pre \in DOMAIN t THEN InsertPath(t, line, n + 1)
          ELSE Let(Concrete(
                 [l \in DOMAIN t \cup {pre} |->
                    IF l = pre THEN NewEvalTreeNode(NegInf)
                    ELSE IF l = par
                      THEN [t[l] EXCEPT !.Replies = Append(@, line[n]),
                                        !.BestLine = IF @ = NoMove THEN line[n] ELSE @]
                    ELSE t[l]]),
                 LAMBDA t2 : InsertPath(t2, line, n + 1))

Insert(t, line, score) ==
  Let(InsertPath(t, line, 1), LAMBDA ext :
    LET par == SubSeq(line, 1, Len(line) - 1)
        last == line[Len(line)]
    IN IF line = <<>> THEN [ext EXCEPT ![line].Score = score]
       ELSE [ext EXCEPT ![line].Score = score,
                        ![par].BestLine =
                           IF @ # last /\ score > ext[Append(par, @)].Score THEN last ELSE @])

\* the reply of node l with the maximal score, the first inserted among equals
RECURSIVE BestReply(_, _, _, _)
BestReply(t, l, i, best) ==
  IF i > Len(t[l].Replies) THEN best
  ELSE LET m == t[l].Replies[i]
       IN IF best = NoMove \/ t[Append(l, m)].Score > t[Append(l, best)].Score
            THEN BestReply(t, l, i + 1, m)
            ELSE BestReply(t, l, i + 1, best)

\* UpdateBestLine: deepest nodes first, every node with replies points at its
\* best reply and takes that reply's score, seen from the other side
RECURSIVE UpdateLevel(_, _)
UpdateLevel(t, d) ==
  IF d < 0 THEN t
  ELSE Let(Concrete(
         [l \in DOMAIN t |->
            IF Len(l) = d /\ t[l].Replies # <<>>
              THEN Let(BestReply(t, l, 1, NoMove), LAMBDA best :
                     [t[l] EXCEPT !.BestLine = best, !.Score = 0 - t[Append(l, best)].Score])
              ELSE t[l]]),
         LAMBDA t2 : UpdateLevel(t2, d - 1))

TreeDepth(t) == CHOOSE d \in 0..Cardinality(DOMAIN t) :
                  /\ \E l \in DOMAIN t : Len(l) = d
                  /\ \A l \in DOMAIN t : Len(l) <= d

UpdateBestLine(t) == Let(TreeDepth(t), LAMBDA d : UpdateLevel(t, d))

\* GetBestLine of the node of line l: follow the best replies down to a leaf
RECURSIVE GetBestLine(_, _)
GetBestLine(t, l) ==
  IF t[l].BestLine = NoMove THEN [Line |-> l, Score |-> t[l].Score]
  ELSE GetBestLine(t, Append(l, t[l].BestLine))

(***************************************************************************)
(* Scoring                                                                 *)
(***************************************************************************)
PieceValue(piece) ==
  CASE ToNormalizedPiece(piece) = Pawn -> 1
    [] ToNormalizedPiece(piece) = Knight -> 3
    [] ToNormalizedPiece(piece) = Bishop -> 3
    [] ToNormalizedPiece(piece) = Rook -> 5
    [] ToNormalizedPiece(piece) = Queen -> 9
    [] OTHER -> 0

RECURSIVE SumValues(_, _)
SumValues(f, sqs) ==
  IF sqs = <<>> THEN 0
  ELSE (IF PieceColor(f.Board[Head(sqs)]) = White THEN PieceValue(f.Board[Head(sqs)])
        ELSE 0 - PieceValue(f.Board[Head(sqs)]))
       + SumValues(f, Tail(sqs))

\* an injected evaluator: Position -> score from White's perspective
Eval(e, f) ==
  IF e = "material"
    THEN SumValues(f, Concat([i \in 1..12 |->
           f.Pieces[IF i <= 6 THEN White ELSE Black]
                   [<<Pawn, Knight, Bishop, Rook, Queen, King>>[((i - 1) % 6) + 1]]]))
    ELSE 0

RECURSIVE SumEvals(_, _)
SumEvals(evals, f) ==
  IF evals = <<>> THEN 0 ELSE Eval(Head(evals), f) + SumEvals(Tail(evals), f)

heuristicScorePosition(evals, f) ==
  LET score == SumEvals(evals, f)
  IN IF f.ToMove = Black THEN score * (0 - 1) ELSE score

\* drawn: the side to move is not in check and has no move
IsDraw(f) == ~InCheck(f) /\ Len(ValidMoves(f)) = 0

ShouldCheckPosition(position) ==
  Let(ValidMoves(position), LAMBDA valid : InCheck(position) \/ Len(valid) <= 1)

\* the score BestMove gives to the successor f
SuccessorScore(evals, f) ==
  IF IsDraw(f) THEN 0
  ELSE IF IsMate(f) THEN PosInf
  ELSE heuristicScorePosition(evals, f) * (0 - 1)

\* the scan of BestMove over nextFENs: index of the best successor (0 = nil)
RECURSIVE BestScan(_, _, _, _, _)
BestScan(evals, nextFENs, i, bestScore, bestIdx) ==
  IF i > Len(nextFENs) THEN [bestScore |-> bestScore, bestIdx |-> bestIdx]
  ELSE Let(SuccessorScore(evals, nextFENs[i]), LAMBDA score :
         IF score > bestScore THEN BestScan(evals, nextFENs, i + 1, score, i)
         ELSE BestScan(evals, nextFENs, i + 1, bestScore, bestIdx))

\* BestMove: panic = the nil dereference of bestGame when nothing was chosen
BestMove(evals, tree, game) ==
  Let(NextFENs(game), LAMBDA nextFENs :
    Let(BestScan(evals, nextFENs, 1, NegInf, 0), LAMBDA scan :
      IF scan.bestIdx = 0
        THEN [panic |-> TRUE, move |-> NoMove, game |-> game, finished |-> FALSE,
              score |-> scan.bestScore, tree |-> tree]
        ELSE Let(nextFENs[scan.bestIdx], LAMBDA bestGame :
               [panic |-> FALSE,
                move |-> bestGame.Line[Len(bestGame.Line)],
                game |-> bestGame,
                finished |-> (IsDraw(bestGame) \/ IsMate(bestGame)),
                score |-> scan.bestScore,
                tree |-> Insert(tree, Append(game.Line, bestGame.Line[Len(bestGame.Line)]),
                                scan.bestScore)])))

\* InitialBestLine: the non-nil prefix of the line array
RECURSIVE InitialBestLineFrom(_, _, _, _, _, _)
InitialBestLineFrom(evals, tree, game, d, depth, line) ==
  IF d >= depth THEN [panic |-> FALSE, line |-> line, tree |-> tree]
  ELSE Let(BestMove(evals, tree, game), LAMBDA bm :
         IF bm.panic THEN [panic |-> TRUE, line |-> line, tree |-> tree]
         ELSE IF bm.finished
           THEN [panic |-> FALSE, line |-> Append(line, bm.game), tree |-> bm.tree]
         ELSE Let(Append(line, bm.game), LAMBDA line2 :
                InitialBestLineFrom(evals, bm.tree, bm.game, d + 1, depth, line2)))

InitialBestLine(evals, tree, root, depth) ==
  InitialBestLineFrom(evals, tree, root, 0, depth, <<>>)

Reverse(s) == [i \in 1..Len(s) |-> s[Len(s) + 1 - i]]

(***************************************************************************)
(* Bounds and inputs                                                       *)
(***************************************************************************)
MaxSelDepth == 3
MaxNodesCap == 2
MaxTicks == 2
MaxStarts == 1

\* a board from a sequence of <<piece, square>> placements
BoardOf(pl) ==
  Concrete([sq \in Squares |->
     IF \E i \in 1..Len(pl) : pl[i][2] = sq
       THEN pl[CHOOSE i \in 1..Len(pl) : pl[i][2] = sq][1]
       ELSE NoPiece])

\* 8/8/8/qn6/kn6/1n6/1KP5/8 w - - 0 0
RootTestWhite ==
  ParsedFEN(BoardOf(<< <<"q", 32>>, <<"n", 33>>, <<"k", 24>>, <<"n", 25>>,
                       <<"n", 17>>, <<"K", 9>>, <<"P", 10>> >>),
            White, None, None, 0, 0)

\* 6rk/6pp/7N/8/8/8/8/K7 w - - 0 1
RootSmothered ==
  ParsedFEN(BoardOf(<< <<"r", 62>>, <<"k", 63>>, <<"p", 54>>, <<"p", 55>>,
                       <<"N", 47>>, <<"K", 0>> >>),
            White, None, None, 0, 1)

\* 6rk/5Npp/8/8/8/8/8/K7 b - - 1 1: Black to move is checkmated, no move
RootNoMove ==
  ParsedFEN(BoardOf(<< <<"r", 62>>, <<"k", 63>>, <<"p", 54>>, <<"p", 55>>,
                       <<"N", 53>>, <<"K", 0>> >>),
            Black, None, None, 1, 1)

\* 6Nk/6NP/3p4/8/8/8/8/K7 w - - 0 1: Black has one pawn move, and White's king
\* reaches the same squares by different ways
RootTransposes ==
  ParsedFEN(BoardOf(<< <<"N", 62>>, <<"k", 63>>, <<"N", 54>>, <<"P", 55>>, <<"p", 43>>,
                       <<"K", 0>> >>),
            White, None, None, 0, 1)

Roots == {RootTestWhite, RootSmothered, RootNoMove, RootTransposes}

EvaluatorSets == {<<>>, <<"material">>}

(***************************************************************************)
(* The engine: DFSEngine fields, the caller, and the one search goroutine  *)
(***************************************************************************)
VARIABLES
  StartingPosition,   \* b.StartingPosition
  SelDepth,           \* b.SelDepth
  Evaluators,         \* b.Evaluators
  Cancel,             \* b.Cancel: "nil" or "set"
  ctxDone,            \* the context of the running search is cancelled
  EvalTree,           \* b.EvalTree
  pc,                 \* position of the search goroutine
  maxNodes,           \* parameter of start
  seen, queue, depth, nodes, totalNodes,   \* locals of start
  timer,              \* "armed", "fired" (a value waits in timer.C) or "read"
  ticks,              \* number of times a timer has fired
  output,             \* the lines received on the output channel
  sendq,              \* the lines the goroutine is about to send
  after,              \* where the goroutine goes once sendq is sent
  crashed,            \* "" or the panic that ended the process
  starts,             \* number of Start calls
  pops,               \* number of positions popped by the running search
  scored,             \* the texts of the positions popped by the running search, in order
  branch,             \* the last branch the select statement took
  current,            \* the position a caller of the move generator holds
  generated,          \* the list ValidMoves returned for current
  chosen,             \* what BestMove returned for current
  stage,              \* "idle", "position", "moves", "movesMain", "best", "applied", "aborted"
  plies,              \* number of moves applied to reach current
  last,               \* the last call of ApplyMove: receiver, move and result
  text,               \* a position text handed to ParseFEN
  parsed,             \* what ParseFEN returned for text
  written,            \* what FENString returned for the parsed position
  reparsed,           \* what ParseFEN returned for written
  tstage,             \* "idle"; "text", "parsed", "written", "reparsed"; "name", "square",
                      \* "named"; "index", "indexNamed"
  cells,              \* the memory: the slices and indexes allocated so far
  objs,               \* the memory: the position objects allocated so far
  shots,              \* the contents of each position object when it was made
  loops,              \* the search goroutines started so far
  cancelFn,           \* b.Cancel: 0 for the nil func, -1 once calling nil has ended the
                      \* process, else the goroutine whose context it cancels
  tboard,             \* the board a holder of a valid-moves table plays on
  table,              \* the ValidMovesList kept for tboard by ApplyMove
  tsteps,             \* number of moves applied to the table
  tlast               \* the last call of ValidMovesList.ApplyMove: receiver before and
                      \* after the call, move and result

engineVars == <<StartingPosition, SelDepth, Evaluators, Cancel, ctxDone, EvalTree, pc,
                maxNodes, seen, queue, depth, nodes, totalNodes, timer, ticks, output,
                sendq, after, crashed, starts, pops, scored, branch>>

moveVars == <<current, generated, chosen, stage, plies, last>>

textVars == <<text, parsed, written, reparsed, tstage>>

heapVars == <<cells, objs, shots>>

lifeVars == <<loops, cancelFn>>

tableVars == <<tboard, table, tsteps, tlast>>

otherVars == <<moveVars, textVars, heapVars, lifeVars, tableVars>>

vars == <<engineVars, otherVars>>

NoChoice == [panic |-> FALSE, move |-> NoMove, finished |-> FALSE, score |-> 0]

\* no call of ApplyMove yet
NoApply == [copy |-> "none"]

\* no call of ParseFEN yet
NoParse == [status |-> "none"]

TextIdle ==
  /\ text = <<>>
  /\ parsed = NoParse
  /\ written = <<>>
  /\ reparsed = NoParse
  /\ tstage = "idle"

HeapIdle ==
  /\ cells = <<>>
  /\ objs = <<>>
  /\ shots = <<>>

LifeIdle ==
  /\ loops = <<>>
  /\ cancelFn = 0

TableIdle ==
  /\ tboard = <<>>
  /\ table = <<>>
  /\ tsteps = 0
  /\ tlast = <<>>

\* NewDFSEngine(depth), SetPosition(fen), AddEvaluator(e)*
EngineInit ==
  /\ StartingPosition \in Roots
  /\ SelDepth \in 1..MaxSelDepth
  /\ Evaluators \in EvaluatorSets
  /\ Cancel = "nil"
  /\ ctxDone = FALSE
  /\ EvalTree = NewEvalTree(NegInf)
  /\ pc = "idle"
  /\ maxNodes = 0
  /\ seen = {}
  /\ queue = <<>>
  /\ depth = 0
  /\ nodes = 0
  /\ totalNodes = 0
  /\ timer = "read"
  /\ ticks = 0
  /\ output = <<>>
  /\ sendq = <<>>
  /\ after = "idle"
  /\ crashed = ""
  /\ starts = 0
  /\ pops = 0
  /\ scored = <<>>
  /\ branch = "none"

Init ==
  /\ EngineInit
  /\ current = StartingPosition
  /\ generated = <<>>
  /\ chosen = NoChoice
  /\ stage = "idle"
  /\ plies = 0
  /\ last = NoApply
  /\ TextIdle
  /\ HeapIdle
  /\ LifeIdle
  /\ TableIdle

\* Start(output, maxNodes, maxDepth): a fresh context, b.Cancel, go b.start(...)
\* The caller starts a search only when none is running.
Start(mn) ==
  /\ crashed = ""
  /\ pc \in {"idle", "end"}
  /\ starts < MaxStarts
  /\ starts' = starts + 1
  /\ Cancel' = "set"
  /\ ctxDone' = FALSE
  /\ maxNodes' = mn
  /\ output' = <<>>
  /\ pc' = "seed"
  /\ pops' = 0
  /\ scored' = <<>>
  /\ branch' = "none"
  /\ UNCHANGED <<StartingPosition, SelDepth, Evaluators, EvalTree, seen, queue, depth, nodes,
                 totalNodes, timer, ticks, sendq, after, crashed>>
  /\ UNCHANGED otherVars

\* Stop(): b.Cancel(); calling the nil func value panics
Stop ==
  /\ crashed = ""
  /\ IF Cancel = "nil"
       THEN crashed' = "Stop" /\ UNCHANGED ctxDone
       ELSE ctxDone' = TRUE /\ UNCHANGED crashed
  /\ UNCHANGED <<StartingPosition, SelDepth, Evaluators, Cancel, EvalTree, pc, maxNodes, seen,
                 queue, depth, nodes, totalNodes, timer, ticks, output, sendq, after, starts,
                 pops, scored, branch>>
  /\ UNCHANGED otherVars

\* the runtime fires the armed timer: a value is ready in timer.C
Tick ==
  /\ crashed = ""
  /\ timer = "armed"
  /\ ticks < MaxTicks
  /\ timer' = "fired"
  /\ ticks' = ticks + 1
  /\ UNCHANGED <<StartingPosition, SelDepth, Evaluators, Cancel, ctxDone, EvalTree, pc, maxNodes,
                 seen, queue, depth, nodes, totalNodes, output, sendq, after, crashed, starts,
                 pops, scored, branch>>
  /\ UNCHANGED otherVars

\* all the root's successors other than the first move of firstLine
OtherChildrenAll(root, firstLine) ==
  SelectSeq(NextFENs(root),
    LAMBDA f : MoveString(f.Line[1]) # MoveString(firstLine[1].Line[1]))

\* the root's successors other than the first move of firstLine that are worth checking
OtherChildren(root, firstLine) ==
  SelectSeq(NextFENs(root),
    LAMBDA f : MoveString(f.Line[1]) # MoveString(firstLine[1].Line[1])
               /\ ShouldCheckPosition(f))

\* start, up to the main loop: new tree, timer, seeding of seen and queue
Seed ==
  /\ crashed = ""
  /\ pc = "seed"
  /\ \E first \in {InitialBestLine(Evaluators, NewEvalTree(NegInf), StartingPosition, SelDepth)} :
       IF first.panic
         THEN /\ crashed' = "BestMove"
              /\ EvalTree' = first.tree
              /\ UNCHANGED <<pc, seen, queue, depth, nodes, totalNodes, timer>>
         ELSE /\ EvalTree' = first.tree
              /\ seen' = {FENString(first.line[i]) : i \in 1..Len(first.line)}
              /\ queue' = Reverse(first.line) \o OtherChildren(StartingPosition, first.line)
              /\ depth' = SelDepth + 1
              /\ nodes' = 0
              /\ totalNodes' = 0
              /\ timer' = "armed"
              /\ pc' = "select"
              /\ UNCHANGED crashed
  /\ UNCHANGED <<StartingPosition, SelDepth, Evaluators, Cancel, ctxDone, maxNodes, ticks,
                 output, sendq, after, starts, pops, scored, branch>>
  /\ UNCHANGED otherVars

BestMoveLine(t) == <<"bestmove", MoveString(t[<<>>].BestLine)>>

PVLine(t) ==
  Let(GetBestLine(t, <<t[<<>>].BestLine>>), LAMBDA bestResult :
    <<"info depth", Len(bestResult.Line), bestResult.Score * 100, LineString(bestResult.Line)>>)

\* the cancellation branch without its best-move line
SelectCancelSilent ==
  /\ crashed = ""
  /\ pc = "select"
  /\ ctxDone
  /\ branch' = "cancel"
  /\ IF EvalTree[<<>>].BestLine = NoMove
       THEN crashed' = "BestLine" /\ UNCHANGED <<pc, sendq, after>>
       ELSE /\ pc' = "end"
            /\ UNCHANGED <<sendq, after, crashed>>
  /\ UNCHANGED <<StartingPosition, SelDepth, Evaluators, Cancel, ctxDone, EvalTree, maxNodes,
                 seen, queue, depth, nodes, totalNodes, timer, ticks, output, starts,
                 pops, scored>>
  /\ UNCHANGED otherVars

\* case <-ctx.Done(): the best-move line, then end
SelectCancel ==
  /\ crashed = ""
  /\ pc = "select"
  /\ ctxDone
  /\ branch' = "cancel"
  /\ IF EvalTree[<<>>].BestLine = NoMove
       THEN crashed' = "BestLine" /\ UNCHANGED <<pc, sendq, after>>
       ELSE /\ sendq' = <<BestMoveLine(EvalTree)>>
            /\ after' = "end"
            /\ pc' = "send"
            /\ UNCHANGED crashed
  /\ UNCHANGED <<StartingPosition, SelDepth, Evaluators, Cancel, ctxDone, EvalTree, maxNodes,
                 seen, queue, depth, nodes, totalNodes, timer, ticks, output, starts,
                 pops, scored>>
  /\ UNCHANGED otherVars

\* case <-timer.C: totalNodes += nodes and the telemetry line
SelectTimer ==
  /\ crashed = ""
  /\ pc = "select"
  /\ timer = "fired"
  /\ branch' = "timer"
  /\ timer' = "read"
  /\ totalNodes' = totalNodes + nodes
  /\ sendq' = << <<"info ns", nodes, totalNodes + nodes, depth, Len(queue)>> >>
  /\ after' = "timer2"
  /\ pc' = "send"
  /\ UNCHANGED <<StartingPosition, SelDepth, Evaluators, Cancel, ctxDone, EvalTree, maxNodes,
                 seen, queue, depth, nodes, ticks, output, crashed, starts,
                 pops, scored>>
  /\ UNCHANGED otherVars

\* ... nodes = 0, a new timer, and the principal-variation line
TimerReport ==
  /\ crashed = ""
  /\ pc = "timer2"
  /\ nodes' = 0
  /\ timer' = "armed"
  /\ IF EvalTree[<<>>].BestLine = NoMove
       THEN crashed' = "BestLine" /\ UNCHANGED <<pc, sendq, after>>
       ELSE /\ sendq' = <<PVLine(EvalTree)>>
            /\ after' = "select"
            /\ pc' = "send"
            /\ UNCHANGED crashed
  /\ UNCHANGED <<StartingPosition, SelDepth, Evaluators, Cancel, ctxDone, EvalTree, maxNodes,
                 seen, queue, depth, totalNodes, ticks, output, starts, pops, scored, branch>>
  /\ UNCHANGED otherVars

\* the unseen successors pushed without the test for a position worth checking
PushedSuccessorsAll(game, seenNow) ==
  Let(NextFENs(game), LAMBDA nextFENs :
    SelectSeq(nextFENs, LAMBDA f : FENString(f) \notin seenNow))

\* the successors pushed without the test for a seen text
PushedSuccessorsUnseen(game, seenNow) ==
  Let(NextFENs(game), LAMBDA nextFENs :
    SelectSeq(nextFENs, LAMBDA f : ~(Len(nextFENs) # 1 /\ ~ShouldCheckPosition(f))))

\* the successors of game that the main loop pushes to the front, in the order it meets them
PushedSuccessors(game, seenNow) ==
  Let(NextFENs(game), LAMBDA nextFENs :
    SelectSeq(nextFENs,
      LAMBDA f : ~(Len(nextFENs) # 1 /\ ~ShouldCheckPosition(f)) /\ FENString(f) \notin seenNow))

ScorePosition(evals, game) ==
  IF IsDraw(game) THEN 0
  ELSE IF IsMate(game) THEN MateScore
  ELSE heuristicScorePosition(evals, game)

\* the queue branch with the node cap tested by > instead of >=
SelectQueueStrictCap ==
  /\ crashed = ""
  /\ pc = "select"
  /\ ~ctxDone
  /\ timer # "fired"
  /\ Len(queue) > 0
  /\ \E game \in {Head(queue)} :
     \E tree1 \in {IF Len(game.Line) < depth THEN UpdateBestLine(EvalTree) ELSE EvalTree} :
     \E seen1 \in {seen \cup {FENString(game)}} :
     \E tree2 \in {Insert(tree1, game.Line, ScorePosition(Evaluators, game))} :
     \E pushed \in {IF Len(game.Line) < SelDepth THEN PushedSuccessors(game, seen1) ELSE <<>>} :
        /\ nodes' = nodes + 1
        /\ pops' = pops + 1
        /\ scored' = Append(scored, FENString(game))
        /\ depth' = Len(game.Line)
        /\ seen' = seen1
        /\ EvalTree' = tree2
        /\ queue' = Reverse(pushed) \o Tail(queue)
        /\ branch' = "queue"
        /\ IF maxNodes > 0 /\ totalNodes + nodes + 1 > maxNodes
             THEN /\ sendq' = << <<"info ns", nodes + 1, totalNodes, Len(game.Line)>>,
                                 BestMoveLine(tree2) >>
                  /\ after' = "end"
                  /\ pc' = "send"
             ELSE UNCHANGED <<sendq, after, pc>>
  /\ UNCHANGED <<StartingPosition, SelDepth, Evaluators, Cancel, ctxDone, maxNodes, totalNodes,
                 timer, ticks, output, crashed, starts>>
  /\ UNCHANGED otherVars

\* the queue branch expanding also the positions at the selective depth, with
\* every unseen successor
SelectQueueDeeper ==
  /\ crashed = ""
  /\ pc = "select"
  /\ ~ctxDone
  /\ timer # "fired"
  /\ Len(queue) > 0
  /\ \E game \in {Head(queue)} :
     \E tree1 \in {IF Len(game.Line) < depth THEN UpdateBestLine(EvalTree) ELSE EvalTree} :
     \E seen1 \in {seen \cup {FENString(game)}} :
     \E tree2 \in {Insert(tree1, game.Line, ScorePosition(Evaluators, game))} :
     \E pushed \in {IF Len(game.Line) <= SelDepth THEN PushedSuccessorsAll(game, seen1) ELSE <<>>} :
        /\ nodes' = nodes + 1
        /\ pops' = pops + 1
        /\ scored' = Append(scored, FENString(game))
        /\ depth' = Len(game.Line)
        /\ seen' = seen1
        /\ EvalTree' = tree2
        /\ queue' = Reverse(pushed) \o Tail(queue)
        /\ branch' = "queue"
        /\ IF maxNodes > 0 /\ totalNodes + nodes + 1 >= maxNodes
             THEN /\ sendq' = << <<"info ns", nodes + 1, totalNodes, Len(game.Line)>>,
                                 BestMoveLine(tree2) >>
                  /\ after' = "end"
                  /\ pc' = "send"
             ELSE UNCHANGED <<sendq, after, pc>>
  /\ UNCHANGED <<StartingPosition, SelDepth, Evaluators, Cancel, ctxDone, maxNodes, totalNodes,
                 timer, ticks, output, crashed, starts>>
  /\ UNCHANGED otherVars

\* the queue branch with the backup pass after the insertion of the score
SelectQueueBackupLate ==
  /\ crashed = ""
  /\ pc = "select"
  /\ ~ctxDone
  /\ timer # "fired"
  /\ Len(queue) > 0
  /\ \E game \in {Head(queue)} :
     \E tree1 \in {Insert(EvalTree, game.Line, ScorePosition(Evaluators, game))} :
     \E seen1 \in {seen \cup {FENString(game)}} :
     \E tree2 \in {IF Len(game.Line) < depth THEN UpdateBestLine(tree1) ELSE tree1} :
     \E pushed \in {IF Len(game.Line) < SelDepth THEN PushedSuccessors(game, seen1) ELSE <<>>} :
        /\ nodes' = nodes + 1
        /\ pops' = pops + 1
        /\ scored' = Append(scored, FENString(game))
        /\ depth' = Len(game.Line)
        /\ seen' = seen1
        /\ EvalTree' = tree2
        /\ queue' = Reverse(pushed) \o Tail(queue)
        /\ branch' = "queue"
        /\ IF maxNodes > 0 /\ totalNodes + nodes + 1 >= maxNodes
             THEN /\ sendq' = << <<"info ns", nodes + 1, totalNodes, Len(game.Line)>>,
                                 BestMoveLine(tree2) >>
                  /\ after' = "end"
                  /\ pc' = "send"
             ELSE UNCHANGED <<sendq, after, pc>>
  /\ UNCHANGED <<StartingPosition, SelDepth, Evaluators, Cancel, ctxDone, maxNodes, totalNodes,
                 timer, ticks, output, crashed, starts>>
  /\ UNCHANGED otherVars

\* default: with a non-empty queue: pop, back up, score, insert, expand, node cap
SelectQueue ==
  /\ crashed = ""
  /\ pc = "select"
  /\ ~ctxDone
  /\ timer # "fired"
  /\ Len(queue) > 0
  /\ \E game \in {Head(queue)} :
     \E tree1 \in {IF Len(game.Line) < depth THEN UpdateBestLine(EvalTree) ELSE EvalTree} :
     \E seen1 \in {seen \cup {FENString(game)}} :
     \E tree2 \in {Insert(tree1, game.Line, ScorePosition(Evaluators, game))} :
     \E pushed \in {IF Len(game.Line) < SelDepth THEN PushedSuccessors(game, seen1) ELSE <<>>} :
        /\ nodes' = nodes + 1
        /\ pops' = pops + 1
        /\ scored' = Append(scored, FENString(game))
        /\ depth' = Len(game.Line)
        /\ seen' = seen1
        /\ EvalTree' = tree2
        /\ queue' = Reverse(pushed) \o Tail(queue)
        /\ branch' = "queue"
        /\ IF maxNodes > 0 /\ totalNodes + nodes + 1 >= maxNodes
             THEN /\ sendq' = << <<"info ns", nodes + 1, totalNodes, Len(game.Line)>>,
                                 BestMoveLine(tree2) >>
                  /\ after' = "end"
                  /\ pc' = "send"
             ELSE UNCHANGED <<sendq, after, pc>>
  /\ UNCHANGED <<StartingPosition, SelDepth, Evaluators, Cancel, ctxDone, maxNodes, totalNodes,
                 timer, ticks, output, crashed, starts>>
  /\ UNCHANGED otherVars

\* the empty-queue branch with the best-move line before the telemetry line
SelectEmptyReordered ==
  /\ crashed = ""
  /\ pc = "select"
  /\ ~ctxDone
  /\ timer # "fired"
  /\ Len(queue) = 0
  /\ branch' = "empty"
  /\ IF EvalTree[<<>>].BestLine = NoMove
       THEN crashed' = "BestLine" /\ UNCHANGED <<pc, sendq, after>>
       ELSE /\ sendq' = << PVLine(EvalTree),
                           BestMoveLine(EvalTree),
                           <<"info ns", nodes, totalNodes, depth>> >>
            /\ after' = "end"
            /\ pc' = "send"
            /\ UNCHANGED crashed
  /\ UNCHANGED <<StartingPosition, SelDepth, Evaluators, Cancel, ctxDone, EvalTree, maxNodes,
                 seen, queue, depth, nodes, totalNodes, timer, ticks, output, starts,
                 pops, scored>>
  /\ UNCHANGED otherVars

\* default: with an empty queue: the final lines, then end
SelectEmpty ==
  /\ crashed = ""
  /\ pc = "select"
  /\ ~ctxDone
  /\ timer # "fired"
  /\ Len(queue) = 0
  /\ branch' = "empty"
  /\ IF EvalTree[<<>>].BestLine = NoMove
       THEN crashed' = "BestLine" /\ UNCHANGED <<pc, sendq, after>>
       ELSE /\ sendq' = << PVLine(EvalTree),
                           <<"info ns", nodes, totalNodes, depth>>,
                           BestMoveLine(EvalTree) >>
            /\ after' = "end"
            /\ pc' = "send"
            /\ UNCHANGED crashed
  /\ UNCHANGED <<StartingPosition, SelDepth, Evaluators, Cancel, ctxDone, EvalTree, maxNodes,
                 seen, queue, depth, nodes, totalNodes, timer, ticks, output, starts,
                 pops, scored>>
  /\ UNCHANGED otherVars

\* output <- line: the send completes when the reader of the channel takes the line
Send ==
  /\ crashed = ""
  /\ pc = "send"
  /\ output' = Append(output, Head(sendq))
  /\ sendq' = Tail(sendq)
  /\ pc' = IF Len(sendq) = 1 THEN after ELSE "send"
  /\ UNCHANGED <<StartingPosition, SelDepth, Evaluators, Cancel, ctxDone, EvalTree, maxNodes,
                 seen, queue, depth, nodes, totalNodes, timer, ticks, after, crashed, starts,
                 pops, scored, branch>>
  /\ UNCHANGED otherVars

LoopStep == Seed \/ SelectCancel \/ SelectTimer \/ TimerReport \/ SelectQueue \/ SelectEmpty \/ Send

Next ==
  \/ \E mn \in 0..MaxNodesCap : Start(mn)
  \/ Stop
  \/ Tick
  \/ LoopStep

Spec == Init /\ [][Next]_vars

\* the goroutine is scheduled and the reader of the output channel keeps reading
FairSpec == Spec /\ WF_vars(LoopStep)

(***************************************************************************)
(* The rules of chess read from the board alone: what a square being       *)
(* attacked, a check, a legal move and a checkmate are                     *)
(***************************************************************************)
RefFile(sq) == sq % 8

RefRank(sq) == sq \div 8

RefSign(x) == IF x > 0 THEN 1 ELSE IF x < 0 THEN 0 - 1 ELSE 0

RefDist(a, b) ==
  LET df == Abs(RefFile(a) - RefFile(b))
      dr == Abs(RefRank(a) - RefRank(b))
  IN IF df > dr THEN df ELSE dr

RefStraight(a, b) == a # b /\ (RefFile(a) = RefFile(b) \/ RefRank(a) = RefRank(b))

RefDiagonal(a, b) == a # b /\ Abs(RefFile(a) - RefFile(b)) = Abs(RefRank(a) - RefRank(b))

\* the squares strictly between two squares of one file, rank or diagonal
RefBetween(a, b) ==
  IF ~(RefStraight(a, b) \/ RefDiagonal(a, b)) THEN {}
  ELSE LET step == RefSign(RefFile(b) - RefFile(a)) + 8 * RefSign(RefRank(b) - RefRank(a))
       IN {a + k * step : k \in 1..(RefDist(a, b) - 1)}

RefClear(board, a, b) == \A sq \in RefBetween(a, b) : board[sq] = NoPiece

\* the piece on from attacks the square to
RefAttacksFrom(board, from, to) ==
  LET piece == board[from]
      df == RefFile(to) - RefFile(from)
      dr == RefRank(to) - RefRank(from)
  IN /\ from # to
     /\ piece # NoPiece
     /\ CASE piece = "P" -> Abs(df) = 1 /\ dr = 1
          [] piece = "p" -> Abs(df) = 1 /\ dr = 0 - 1
          [] piece \in {"N", "n"} -> {Abs(df), Abs(dr)} = {1, 2}
          [] piece \in {"K", "k"} -> RefDist(from, to) = 1
          [] piece \in {"B", "b"} -> RefDiagonal(from, to) /\ RefClear(board, from, to)
          [] piece \in {"R", "r"} -> RefStraight(from, to) /\ RefClear(board, from, to)
          [] OTHER -> (RefStraight(from, to) \/ RefDiagonal(from, to))
                      /\ RefClear(board, from, to)

RefOwn(board, color) == {sq \in Squares : PieceColor(board[sq]) = color}

RefAttackers(board, color, sq) ==
  {from \in RefOwn(board, color) : RefAttacksFrom(board, from, sq)}

RefKing(board, color) == CHOOSE sq \in Squares : board[sq] = ToPiece(King, color)

KingsPresent(board) == \A c \in {Black, White} : \E sq \in Squares : board[sq] = ToPiece(King, c)

\* the pieces giving check to the side to move (a king never gives check)
RefCheckers(f) ==
  {from \in RefAttackers(f.Board, Opposite(f.ToMove), RefKing(f.Board, f.ToMove)) :
     f.Board[from] \notin {"K", "k"}}

RefPawnPush(board, from, to) ==
  LET dir == IF board[from] = "P" THEN 8 ELSE 0 - 8
      home == IF board[from] = "P" THEN 1 ELSE 6
  IN \/ to = from + dir /\ board[to] = NoPiece
     \/ /\ RefRank(from) = home
        /\ to = from + 2 * dir
        /\ board[from + dir] = NoPiece
        /\ board[to] = NoPiece

\* the moves <<from, to>> of color's pieces, own king's safety not considered
RefPseudoMoves(board, color) ==
  UNION {{<<from, to>> : to \in {t \in Squares :
             /\ PieceColor(board[t]) # color
             /\ IF board[from] \in {"P", "p"}
                  THEN \/ RefAttacksFrom(board, from, t) /\ board[t] # NoPiece
                       \/ RefPawnPush(board, from, t)
                  ELSE RefAttacksFrom(board, from, t)}} : from \in RefOwn(board, color)}

\* the board after the move m (a pawn reaching the last rank becomes a queen)
RefApply(board, m) ==
  LET piece == board[m[1]]
      placed == IF piece = "P" /\ RefRank(m[2]) = 7 THEN "Q"
                ELSE IF piece = "p" /\ RefRank(m[2]) = 0 THEN "q" ELSE piece
  IN [board EXCEPT ![m[1]] = NoPiece, ![m[2]] = placed]

RefInCheck(board, color) == RefAttackers(board, Opposite(color), RefKing(board, color)) # {}

RefLegalMoves(board, color) ==
  {m \in RefPseudoMoves(board, color) : ~RefInCheck(RefApply(board, m), color)}

RefCheckmate(board, color) == RefInCheck(board, color) /\ RefLegalMoves(board, color) = {}

\* the moves of color that checkmate the opponent
RefMatingMoves(board, color) ==
  {m \in RefLegalMoves(board, color) : RefCheckmate(RefApply(board, m), Opposite(color))}

\* color, to move, forces checkmate within n plies
RECURSIVE RefForcedMate(_, _, _)
RefForcedMate(board, color, n) ==
  /\ n >= 1
  /\ \E m \in RefLegalMoves(board, color) :
       \E b1 \in {RefApply(board, m)} :
          \/ RefCheckmate(b1, Opposite(color))
          \/ /\ n >= 3
             /\ RefLegalMoves(b1, Opposite(color)) # {}
             /\ \A r \in RefLegalMoves(b1, Opposite(color)) :
                  RefForcedMate(RefApply(b1, r), color, n - 2)

(***************************************************************************)
(* A caller of the move generator: it holds a position, asks for its valid *)
(* moves, applies one of them, or asks the engine for the best move        *)
(***************************************************************************)
MaxPlies == 1

\* 8/1kp5/1N6/KN6/QN6/8/8/8 b - - 0 0
PosTestBlack ==
  ParsedFEN(BoardOf(<< <<"k", 49>>, <<"p", 50>>, <<"N", 41>>, <<"K", 32>>, <<"N", 33>>,
                       <<"Q", 24>>, <<"N", 25>> >>),
            Black, None, None, 0, 0)

\* 7k/8/8/8/8/5n2/6P1/4K3 w - - 0 1: check by the knight f3, the pawn g2 attacks it
PosKnightCheck ==
  ParsedFEN(BoardOf(<< <<"k", 63>>, <<"n", 21>>, <<"P", 14>>, <<"K", 4>> >>),
            White, None, None, 0, 1)

\* 4r2k/8/8/8/8/R4n2/8/4K3 w - - 0 1: check by the rook e8 and the knight f3
PosKnightRookCheck ==
  ParsedFEN(BoardOf(<< <<"r", 60>>, <<"k", 63>>, <<"R", 16>>, <<"n", 21>>, <<"K", 4>> >>),
            White, None, None, 0, 1)

\* 4r2k/8/8/8/1b6/R7/8/4K3 w - - 0 1: check by the bishop b4 and the rook e8
PosBishopRookCheck ==
  ParsedFEN(BoardOf(<< <<"r", 60>>, <<"k", 63>>, <<"b", 25>>, <<"R", 16>>, <<"K", 4>> >>),
            White, None, None, 0, 1)

\* 4r2k/8/8/7B/8/R7/8/4K3 w - - 0 1: check by the rook e8; a block and a capture exist
PosRookCheck ==
  ParsedFEN(BoardOf(<< <<"r", 60>>, <<"k", 63>>, <<"B", 39>>, <<"R", 16>>, <<"K", 4>> >>),
            White, None, None, 0, 1)

\* 7k/8/8/8/8/8/3p4/3QK3 w - - 0 1: check by the pawn d2
PosPawnCheck ==
  ParsedFEN(BoardOf(<< <<"k", 63>>, <<"p", 11>>, <<"Q", 3>>, <<"K", 4>> >>),
            White, None, None, 0, 1)

\* 7k/8/1b6/8/8/8/3P4/6K1 w - - 0 1: check by the bishop b6
PosBishopCheck ==
  ParsedFEN(BoardOf(<< <<"k", 63>>, <<"b", 41>>, <<"P", 11>>, <<"K", 6>> >>),
            White, None, None, 0, 1)

\* 8/8/8/8/8/4k3/8/4K2r w - - 0 1: check by the rook h1, the black king guards d2, e2, f2
PosKingGuards ==
  ParsedFEN(BoardOf(<< <<"k", 20>>, <<"r", 7>>, <<"K", 4>> >>),
            White, None, None, 0, 1)

\* the back rank of the standard opening position, files a to h
BackRank == <<"R", "N", "B", "Q", "K", "B", "N", "R">>

\* rnbqkbnr/pppppppp/8/8/8/8/PPPPPPPP/RNBQKBNR w KQkq - 0 1
PosOpening ==
  ParsedFEN(Concrete([sq \in Squares |->
              IF sq \div 8 = 0 THEN BackRank[(sq % 8) + 1]
              ELSE IF sq \div 8 = 1 THEN "P"
              ELSE IF sq \div 8 = 6 THEN "p"
              ELSE IF sq \div 8 = 7 THEN ToPiece(BackRank[(sq % 8) + 1], Black)
              ELSE NoPiece]),
            White, Both, Both, 0, 1)

\* 1n2k3/P6p/8/8/8/8/p6P/1N2K3 w - - 0 1: each side has a pawn that can promote by
\* an advance or by a capture, and a pawn on its start square
PosPromoteWhite ==
  ParsedFEN(BoardOf(<< <<"n", 57>>, <<"k", 60>>, <<"P", 48>>, <<"p", 55>>,
                       <<"p", 8>>, <<"P", 15>>, <<"N", 1>>, <<"K", 4>> >>),
            White, None, None, 0, 1)

\* 1n2k3/P6p/8/8/8/8/p6P/1N2K3 b - - 0 1
PosPromoteBlack ==
  ParsedFEN(BoardOf(<< <<"n", 57>>, <<"k", 60>>, <<"P", 48>>, <<"p", 55>>,
                       <<"p", 8>>, <<"P", 15>>, <<"N", 1>>, <<"K", 4>> >>),
            Black, None, None, 0, 1)

\* r3k2r/8/8/8/8/8/8/R3K2R w KQkq - 0 1
PosCastleWhite ==
  ParsedFEN(BoardOf(<< <<"r", 56>>, <<"k", 60>>, <<"r", 63>>,
                       <<"R", 0>>, <<"K", 4>>, <<"R", 7>> >>),
            White, Both, Both, 0, 1)

\* r3k2r/8/8/8/8/8/8/R3K2R b KQkq - 0 1
PosCastleBlack ==
  ParsedFEN(BoardOf(<< <<"r", 56>>, <<"k", 60>>, <<"r", 63>>,
                       <<"R", 0>>, <<"K", 4>>, <<"R", 7>> >>),
            Black, Both, Both, 0, 1)

\* 4k3/8/p7/8/8/4n3/4P3/4K3 w - - 0 1: the pawn e2 has a knight right ahead of it and
\* an empty square two ahead; Black has a pawn on the sixth rank
PosPawnBehindKnight ==
  ParsedFEN(BoardOf(<< <<"k", 60>>, <<"p", 40>>, <<"n", 20>>, <<"P", 12>>, <<"K", 4>> >>),
            White, None, None, 0, 1)

TestPositions ==
  {RootTestWhite, RootSmothered, RootNoMove, PosTestBlack, PosKnightCheck, PosKnightRookCheck,
   PosBishopRookCheck, PosRookCheck, PosPawnCheck, PosBishopCheck, PosKingGuards,
   PosOpening, PosPromoteWhite, PosPromoteBlack, PosCastleWhite, PosCastleBlack,
   PosPawnBehindKnight}

MovesInit ==
  /\ StartingPosition = RootTestWhite
  /\ SelDepth = 1
  /\ Evaluators \in EvaluatorSets
  /\ Cancel = "nil"
  /\ ctxDone = FALSE
  /\ EvalTree = NewEvalTree(NegInf)
  /\ pc = "idle"
  /\ maxNodes = 0
  /\ seen = {}
  /\ queue = <<>>
  /\ depth = 0
  /\ nodes = 0
  /\ totalNodes = 0
  /\ timer = "read"
  /\ ticks = 0
  /\ output = <<>>
  /\ sendq = <<>>
  /\ after = "idle"
  /\ crashed = ""
  /\ starts = 0
  /\ pops = 0
  /\ scored = <<>>
  /\ branch = "none"
  /\ current \in TestPositions
  /\ generated = <<>>
  /\ chosen = NoChoice
  /\ stage = "position"
  /\ plies = 0
  /\ last = NoApply
  /\ TextIdle
  /\ HeapIdle
  /\ LifeIdle
  /\ TableIdle

\* current.ValidMoves(); the interposition walk may abort the process
GenerateMoves ==
  /\ stage = "position"
  /\ \E checks \in {Checks(current)} :
       IF validMovesInCheckPanics(current, checks)
         THEN stage' = "aborted" /\ UNCHANGED generated
         ELSE stage' = "moves" /\ generated' = ValidMoves(current)
  /\ UNCHANGED <<current, chosen, plies, last>>
  /\ UNCHANGED <<engineVars, textVars, heapVars, lifeVars, tableVars>>

\* current.ValidMoves() of the package main copy
GenerateMovesMain ==
  /\ stage = "position"
  /\ \E checks \in {Checks(current)} :
       IF validMovesInCheckPanics(current, checks)
         THEN stage' = "aborted" /\ UNCHANGED generated
         ELSE stage' = "movesMain" /\ generated' = ValidMovesMain(current)
  /\ UNCHANGED <<current, chosen, plies, last>>
  /\ UNCHANGED <<engineVars, textVars, heapVars, lifeVars, tableVars>>

\* current.ApplyMove(m) for a move m of the generated list; positions without a
\* king are not followed
PlayMove ==
  /\ stage = "moves"
  /\ plies < MaxPlies
  /\ \E i \in 1..Len(generated) :
       /\ current.Board[generated[i].To] \notin {"K", "k"}
       /\ ~ApplyMovePanics(current, generated[i])
       /\ current' = ApplyMove(current, generated[i])
       /\ last' = [copy |-> "chess_engine", parent |-> current, move |-> generated[i],
                   child |-> current']
  /\ stage' = "position"
  /\ plies' = plies + 1
  /\ generated' = <<>>
  /\ UNCHANGED chosen
  /\ UNCHANGED <<engineVars, textVars, heapVars, lifeVars, tableVars>>

\* current.ApplyMove(m) of the package main copy, for a move m of the generated
\* list; the caller keeps the result aside
PlayMoveMain ==
  /\ stage = "moves"
  /\ plies < MaxPlies
  /\ \E i \in 1..Len(generated) :
       /\ current.Board[generated[i].To] \notin {"K", "k"}
       /\ last' = [copy |-> "main", parent |-> current, move |-> generated[i],
                   child |-> ApplyMoveMain(current, generated[i])]
  /\ stage' = "applied"
  /\ UNCHANGED <<current, generated, chosen, plies>>
  /\ UNCHANGED <<engineVars, textVars, heapVars, lifeVars, tableVars>>

\* b.BestMove(current) on a fresh tree; positions in which a king can be taken
\* are not searched
SearchBestMove ==
  /\ stage = "position"
  /\ \E valid \in {ValidMoves(current)} :
       \A i \in 1..Len(valid) : current.Board[valid[i].To] \notin {"K", "k"}
  /\ \E bm \in {BestMove(Evaluators, NewEvalTree(NegInf), current)} :
       chosen' = [panic |-> bm.panic, move |-> bm.move, finished |-> bm.finished,
                  score |-> bm.score]
  /\ stage' = "best"
  /\ UNCHANGED <<current, generated, plies, last>>
  /\ UNCHANGED <<engineVars, textVars, heapVars, lifeVars, tableVars>>

MovesNext ==
  GenerateMoves \/ GenerateMovesMain \/ PlayMove \/ PlayMoveMain \/ SearchBestMove

SpecMoves == MovesInit /\ [][MovesNext]_vars

(***************************************************************************)
(* Texts: ParseFEN, FENString, ParsePosition and Position.String on texts   *)
(* and square names                                                         *)
(***************************************************************************)

\* rnbqkbnr/pppppppp/8/8/8/8/PPPPPPPP/RNBQKBNR w KQkq - 0 1: the opening position
TextOpening ==
  <<<<"r", "n", "b", "q", "k", "b", "n", "r", "/", "p", "p", "p", "p", "p", "p", "p", "p", "/", "8", "/", "8", "/", "8", "/", "8", "/", "P", "P", "P", "P", "P", "P", "P", "P", "/", "R", "N", "B", "Q", "K", "B", "N", "R">>,
     <<"w">>,
     <<"K", "Q", "k", "q">>,
     <<"-">>,
     <<"0">>,
     <<"1">>>>

\* r3k2r/8/8/8/8/8/8/R3K2R b Kq - 3 7: rights of one side each
TextCastles ==
  <<<<"r", "3", "k", "2", "r", "/", "8", "/", "8", "/", "8", "/", "8", "/", "8", "/", "8", "/", "R", "3", "K", "2", "R">>,
     <<"b">>,
     <<"K", "q">>,
     <<"-">>,
     <<"3">>,
     <<"7">>>>

\* r3k2r/8/8/8/8/8/8/R3K2R w Q - 0 1: White's queenside right only
TextWhiteQueenside ==
  <<<<"r", "3", "k", "2", "r", "/", "8", "/", "8", "/", "8", "/", "8", "/", "8", "/", "8", "/", "R", "3", "K", "2", "R">>,
     <<"w">>,
     <<"Q">>,
     <<"-">>,
     <<"0">>,
     <<"1">>>>

\* r3k2r/8/8/8/8/8/8/R3K2R w kq - 12 30: Black's rights only
TextBlackBoth ==
  <<<<"r", "3", "k", "2", "r", "/", "8", "/", "8", "/", "8", "/", "8", "/", "8", "/", "8", "/", "R", "3", "K", "2", "R">>,
     <<"w">>,
     <<"k", "q">>,
     <<"-">>,
     <<"1", "2">>,
     <<"3", "0">>>>

\* 4k3/8/8/8/4P3/8/8/4K3 b - e3 0 1: an en-passant square on rank 3
TextEnPassantE3 ==
  <<<<"4", "k", "3", "/", "8", "/", "8", "/", "8", "/", "4", "P", "3", "/", "8", "/", "8", "/", "4", "K", "3">>,
     <<"b">>,
     <<"-">>,
     <<"e", "3">>,
     <<"0">>,
     <<"1">>>>

\* 4k3/8/8/8/8/8/8/4K3 w - a2 0 1: an en-passant square on rank 2
TextEnPassantA2 ==
  <<<<"4", "k", "3", "/", "8", "/", "8", "/", "8", "/", "8", "/", "8", "/", "8", "/", "4", "K", "3">>,
     <<"w">>,
     <<"-">>,
     <<"a", "2">>,
     <<"0">>,
     <<"1">>>>

\* 4k3/8/8/8/3P4/8/8/4K3 b - d3 0 1: another en-passant square on rank 3
TextEnPassantD3 ==
  <<<<"4", "k", "3", "/", "8", "/", "8", "/", "8", "/", "3", "P", "4", "/", "8", "/", "8", "/", "4", "K", "3">>,
     <<"b">>,
     <<"-">>,
     <<"d", "3">>,
     <<"0">>,
     <<"1">>>>

\* 4k3/8/8/8/8/8/8/4K3 w - - 0: the last field is missing
TextNoFullmove ==
  <<<<"4", "k", "3", "/", "8", "/", "8", "/", "8", "/", "8", "/", "8", "/", "8", "/", "4", "K", "3">>,
     <<"w">>,
     <<"-">>,
     <<"-">>,
     <<"0">>>>

\* 4k3/8/8/8/8/8/8/4K3 w - - x 1: the halfmove clock is no number
TextBadNumber ==
  <<<<"4", "k", "3", "/", "8", "/", "8", "/", "8", "/", "8", "/", "8", "/", "8", "/", "4", "K", "3">>,
     <<"w">>,
     <<"-">>,
     <<"-">>,
     <<"x">>,
     <<"1">>>>

\* 4k3/8/8/8/8/8/8/4K3 x - - 0 1: a side to move other than w or b
TextBadColor ==
  <<<<"4", "k", "3", "/", "8", "/", "8", "/", "8", "/", "8", "/", "8", "/", "8", "/", "4", "K", "3">>,
     <<"x">>,
     <<"-">>,
     <<"-">>,
     <<"0">>,
     <<"1">>>>

\* 4k3/8/8/8/8/8/8/4K3 w - e9 0 1: an en-passant field that names no square
TextBadEnPassant ==
  <<<<"4", "k", "3", "/", "8", "/", "8", "/", "8", "/", "8", "/", "8", "/", "8", "/", "4", "K", "3">>,
     <<"w">>,
     <<"-">>,
     <<"e", "9">>,
     <<"0">>,
     <<"1">>>>

\* 4k3/8/8/8/8/8/8/4K3 w - e33 0 1: an en-passant field of three bytes
TextLongEnPassant ==
  <<<<"4", "k", "3", "/", "8", "/", "8", "/", "8", "/", "8", "/", "8", "/", "8", "/", "4", "K", "3">>,
     <<"w">>,
     <<"-">>,
     <<"e", "3", "3">>,
     <<"0">>,
     <<"1">>>>

\* 4k3pppp/8/8/8/8/8/8/4K3 w - - 0 1: nine squares in the first rank of the text
TextNineTop ==
  <<<<"4", "k", "3", "p", "p", "p", "p", "/", "8", "/", "8", "/", "8", "/", "8", "/", "8", "/", "8", "/", "4", "K", "3">>,
     <<"w">>,
     <<"-">>,
     <<"-">>,
     <<"0">>,
     <<"1">>>>

\* 4k3/ppppppppp/8/8/8/8/8/4K3 w - - 0 1: nine squares in a lower rank
TextNineLower ==
  <<<<"4", "k", "3", "/", "p", "p", "p", "p", "p", "p", "p", "p", "p", "/", "8", "/", "8", "/", "8", "/", "8", "/", "8", "/", "4", "K", "3">>,
     <<"w">>,
     <<"-">>,
     <<"-">>,
     <<"0">>,
     <<"1">>>>

\* 4k3/8/8/8/8/8/8/4K3/8 w - - 0 1: nine ranks, the ninth empty
TextNineDigits ==
  <<<<"4", "k", "3", "/", "8", "/", "8", "/", "8", "/", "8", "/", "8", "/", "8", "/", "4", "K", "3", "/", "8">>,
     <<"w">>,
     <<"-">>,
     <<"-">>,
     <<"0">>,
     <<"1">>>>

\* 4k3/8/8/8/8/8/8/4K3/p7 w - - 0 1: nine ranks, the ninth with a pawn
TextNinePieces ==
  <<<<"4", "k", "3", "/", "8", "/", "8", "/", "8", "/", "8", "/", "8", "/", "8", "/", "4", "K", "3", "/", "p", "7">>,
     <<"w">>,
     <<"-">>,
     <<"-">>,
     <<"0">>,
     <<"1">>>>

\* 4k3/8/8/44P/8/8/8/4K3 w - - 0 1: digits that pass the end of a rank
TextLongDigits ==
  <<<<"4", "k", "3", "/", "8", "/", "8", "/", "4", "4", "P", "/", "8", "/", "8", "/", "8", "/", "4", "K", "3">>,
     <<"w">>,
     <<"-">>,
     <<"-">>,
     <<"0">>,
     <<"1">>>>

\* 4k3/8/8/8/8/8/8/3xK3 w - - 0 1: a letter that is no piece
TextUnknownLetter ==
  <<<<"4", "k", "3", "/", "8", "/", "8", "/", "8", "/", "8", "/", "8", "/", "8", "/", "3", "x", "K", "3">>,
     <<"w">>,
     <<"-">>,
     <<"-">>,
     <<"0">>,
     <<"1">>>>

TextInputs ==
  {TextOpening, TextCastles, TextWhiteQueenside, TextBlackBoth,
   TextEnPassantE3, TextEnPassantA2, TextEnPassantD3, TextNoFullmove,
   TextBadNumber, TextBadColor, TextBadEnPassant, TextLongEnPassant,
   TextNineTop, TextNineLower, TextNineDigits, TextNinePieces,
   TextLongDigits, TextUnknownLetter}

\* the square names whose Position value TLC's integers can hold (below 2^31)
SquareNames ==
  {<<Chr(97 + x), Chr(49 + y)>> : x \in 0..7, y \in 0..3} \ {<<"h", "4">>}

MovesIdle ==
  /\ current = RootTestWhite
  /\ generated = <<>>
  /\ chosen = NoChoice
  /\ stage = "idle"
  /\ plies = 0
  /\ last = NoApply

EngineIdle ==
  /\ StartingPosition = RootTestWhite
  /\ SelDepth = 1
  /\ Evaluators = {}
  /\ Cancel = "nil"
  /\ ctxDone = FALSE
  /\ EvalTree = NewEvalTree(NegInf)
  /\ pc = "idle"
  /\ maxNodes = 0
  /\ seen = {}
  /\ queue = <<>>
  /\ depth = 0
  /\ nodes = 0
  /\ totalNodes = 0
  /\ timer = "read"
  /\ ticks = 0
  /\ output = <<>>
  /\ sendq = <<>>
  /\ after = "idle"
  /\ crashed = ""
  /\ starts = 0
  /\ pops = 0
  /\ scored = <<>>
  /\ branch = "none"

\* a text for ParseFEN, a square name for ParsePosition, or a Position value
\* for Position.String
TextInit ==
  /\ EngineIdle
  /\ MovesIdle
  /\ HeapIdle
  /\ LifeIdle
  /\ TableIdle
  /\ parsed = NoParse
  /\ written = <<>>
  /\ reparsed = NoParse
  /\ \/ tstage = "text" /\ text \in TextInputs
     \/ tstage = "name" /\ text \in SquareNames
     \/ tstage = "index" /\ text \in Squares

\* ParseFEN(text)
ParseText ==
  /\ tstage = "text"
  /\ \E unknownPanics \in BOOLEAN : parsed' = ParseFEN(text, unknownPanics)
  /\ tstage' = "parsed"
  /\ UNCHANGED <<text, written, reparsed>>
  /\ UNCHANGED <<engineVars, moveVars, heapVars, lifeVars, tableVars>>

\* a position with both kings in which no move takes a king
Playable(f) ==
  /\ \A c \in {Black, White} : f.Pieces[c][King] # <<>>
  /\ \E checks \in {Checks(f)} : ~validMovesInCheckPanics(f, checks)
  /\ \E valid \in {ValidMoves(f)} :
       \A i \in 1..Len(valid) : f.Board[valid[i].To] \notin {"K", "k"}

\* parsed.ApplyMove(m) for a move m of parsed.ValidMoves()
TextApplyMove ==
  /\ tstage = "parsed"
  /\ parsed.status = "ok"
  /\ Len(parsed.fen.Line) < MaxPlies
  /\ Playable(parsed.fen)
  /\ \E valid \in {ValidMoves(parsed.fen)} :
       \E i \in 1..Len(valid) :
         /\ ~ApplyMovePanics(parsed.fen, valid[i])
         /\ parsed' = [status |-> "ok", fen |-> ApplyMove(parsed.fen, valid[i])]
  /\ UNCHANGED <<text, written, reparsed, tstage>>
  /\ UNCHANGED <<engineVars, moveVars, heapVars, lifeVars, tableVars>>

\* parsed.FENString()
WriteText ==
  /\ tstage = "parsed"
  /\ parsed.status = "ok"
  /\ written' = FENString(parsed.fen)
  /\ tstage' = "written"
  /\ UNCHANGED <<text, parsed, reparsed>>
  /\ UNCHANGED <<engineVars, moveVars, heapVars, lifeVars, tableVars>>

\* ParseFEN(written)
ReparseText ==
  /\ tstage = "written"
  /\ \E unknownPanics \in BOOLEAN : reparsed' = ParseFEN(written, unknownPanics)
  /\ tstage' = "reparsed"
  /\ UNCHANGED <<text, parsed, written>>
  /\ UNCHANGED <<engineVars, moveVars, heapVars, lifeVars, tableVars>>

\* ParsePosition(text)
ParseSquare ==
  /\ tstage = "name"
  /\ parsed' = ParsePosition(text)
  /\ tstage' = "square"
  /\ UNCHANGED <<text, written, reparsed>>
  /\ UNCHANGED <<engineVars, moveVars, heapVars, lifeVars, tableVars>>

\* parsed.String() of the Position that ParsePosition returned
WriteSquare ==
  /\ tstage = "square"
  /\ parsed.status = "ok"
  /\ written' = PositionString(parsed.pos)
  /\ tstage' = "named"
  /\ UNCHANGED <<text, parsed, reparsed>>
  /\ UNCHANGED <<engineVars, moveVars, heapVars, lifeVars, tableVars>>

\* Position(text).String() of a board index
WriteIndex ==
  /\ tstage = "index"
  /\ written' = PositionString(text)
  /\ tstage' = "indexNamed"
  /\ UNCHANGED <<text, parsed, reparsed>>
  /\ UNCHANGED <<engineVars, moveVars, heapVars, lifeVars, tableVars>>

TextNext ==
  ParseText \/ TextApplyMove \/ WriteText \/ ReparseText \/ ParseSquare \/ WriteSquare
    \/ WriteIndex

SpecText == TextInit /\ [][TextNext]_vars

(***************************************************************************)
(* Memory: the slices and the index that position objects point to          *)
(***************************************************************************)
MaxObjects == 4

\* 4k3/8/8/8/8/p7/P7/K7 w - - 0 1
TextBlockedPawns ==
  <<<<"4", "k", "3", "/", "8", "/", "8", "/", "8", "/", "8", "/", "p", "7", "/", "P", "7", "/", "K", "7">>,
     <<"w">>,
     <<"-">>,
     <<"-">>,
     <<"0">>,
     <<"1">>>>

\* k7/p7/8/8/8/1p6/P7/K7 w - - 0 1
TextPawnTakes ==
  <<<<"k", "7", "/", "p", "7", "/", "8", "/", "8", "/", "8", "/", "1", "p", "6", "/", "P", "7", "/", "K", "7">>,
     <<"w">>,
     <<"-">>,
     <<"-">>,
     <<"0">>,
     <<"1">>>>

HeapRoots == {ParseFEN(TextBlockedPawns, FALSE).fen, ParseFEN(TextPawnTakes, FALSE).fen}

\* the position an object stands for: its slices and index read from memory
Deref(o, mem) ==
  [Board |-> mem[o.Board],
   Pieces |-> mem[o.Pieces],
   ToMove |-> o.ToMove,
   WhiteCastleStatus |-> o.WhiteCastleStatus,
   BlackCastleStatus |-> o.BlackCastleStatus,
   EnPassantVulnerable |-> o.EnPassantVulnerable,
   HalfmoveClock |-> o.HalfmoveClock,
   Fullmove |-> o.Fullmove,
   Line |-> mem[o.Line]]

\* the object of position f with its line, board and index at la, ba and pa
Object(f, la, ba, pa) ==
  [Board |-> ba,
   Pieces |-> pa,
   ToMove |-> f.ToMove,
   WhiteCastleStatus |-> f.WhiteCastleStatus,
   BlackCastleStatus |-> f.BlackCastleStatus,
   EnPassantVulnerable |-> f.EnPassantVulnerable,
   HalfmoveClock |-> f.HalfmoveClock,
   Fullmove |-> f.Fullmove,
   Line |-> la]

\* the writes of one construction: line, board and index
Store(mem, la, line, ba, board, pa, index) ==
  Concrete((pa :> index) @@ (ba :> board) @@ (la :> line) @@ mem)

\* line := make([]*Move, len(f.Line)+1): a slice no object points to yet
makeLine(parent, free) == free + 1

\* a board that is the receiver's own slice
makeBoardOfReceiver(parent, free) == parent.Board

\* board := make([]Piece, 64): a slice no object points to yet
makeBoard(parent, free) == free + 2

\* the index that Pieces.ApplyMove returns: one no object points to yet
makePieces(parent, free) == free + 3

\* ParseFEN: one object with its own board, index and (empty) line
HeapInit ==
  /\ EngineIdle
  /\ MovesIdle
  /\ TextIdle
  /\ LifeIdle
  /\ TableIdle
  /\ \E root \in HeapRoots :
       /\ cells = Store(<<>>, 1, root.Line, 2, root.Board, 3, root.Pieces)
       /\ objs = <<Object(root, 1, 2, 3)>>
       /\ shots = <<root>>

\* memory, objects and first values after objs[i].ApplyMove(move)
HeapAfterMove(mem, os, ss, i, move) ==
  LET parent == os[i]
      free == 3 * Len(os)
      la == makeLine(parent, free)
      ba == makeBoard(parent, free)
      pa == makePieces(parent, free)
  IN Let(ApplyMove(Deref(parent, mem), move), LAMBDA child :
       [cells |-> Store(mem, la, child.Line, ba, child.Board, pa, child.Pieces),
        objs |-> Append(os, Object(child, la, ba, pa)),
        shots |-> Append(ss, child)])

\* objs[i].ApplyMove(m) for a move m of objs[i].ValidMoves()
HeapApplyMove ==
  /\ Len(objs) < MaxObjects
  /\ \E i \in 1..Len(objs) :
       \E f \in {Deref(objs[i], cells)} :
         /\ Playable(f)
         /\ \E valid \in {ValidMoves(f)} :
              \E k \in 1..Len(valid) :
                /\ ~ApplyMovePanics(f, valid[k])
                /\ \E h \in {HeapAfterMove(cells, objs, shots, i, valid[k])} :
                     /\ cells' = h.cells
                     /\ objs' = h.objs
                     /\ shots' = h.shots
  /\ generated' = <<>>
  /\ UNCHANGED <<current, chosen, stage, plies, last>>
  /\ UNCHANGED <<engineVars, textVars, lifeVars, tableVars>>

\* the loop of NextFENs: ApplyMove of the same receiver for each move in turn
RECURSIVE HeapAfterMoves(_, _, _)
HeapAfterMoves(h, i, moves) ==
  IF moves = <<>> THEN h
  ELSE Let(HeapAfterMove(h.cells, h.objs, h.shots, i, Head(moves)), LAMBDA h1 :
         HeapAfterMoves(h1, i, Tail(moves)))

\* objs[i].NextFENs()
HeapNextFENs ==
  /\ \E i \in 1..Len(objs) :
       \E f \in {Deref(objs[i], cells)} :
         /\ Playable(f)
         /\ \E valid \in {ValidMoves(f)} :
              /\ Len(objs) + Len(valid) <= MaxObjects
              /\ \A k \in 1..Len(valid) : ~ApplyMovePanics(f, valid[k])
              /\ \E h \in {HeapAfterMoves([cells |-> cells, objs |-> objs, shots |-> shots],
                                             i, valid)} :
                   /\ cells' = h.cells
                   /\ objs' = h.objs
                   /\ shots' = h.shots
  /\ generated' = <<>>
  /\ UNCHANGED <<current, chosen, stage, plies, last>>
  /\ UNCHANGED <<engineVars, textVars, lifeVars, tableVars>>

\* objs[i].ValidMoves(), with the attack queries it makes: reads only
HeapValidMoves ==
  /\ \E i \in 1..Len(objs) :
       \E f \in {Deref(objs[i], cells)} :
         /\ Playable(f)
         /\ generated' = ValidMoves(f)
  /\ UNCHANGED <<current, chosen, stage, plies, last>>
  /\ UNCHANGED <<engineVars, textVars, heapVars, lifeVars, tableVars>>

HeapNext == HeapApplyMove \/ HeapNextFENs \/ HeapValidMoves

SpecHeap == HeapInit /\ [][HeapNext]_vars

(***************************************************************************)
(* Start and Stop of one engine: the search goroutines and b.Cancel         *)
(***************************************************************************)
MaxLoops == 4

LifeInit ==
  /\ EngineIdle
  /\ MovesIdle
  /\ TextIdle
  /\ HeapIdle
  /\ LifeIdle
  /\ TableIdle

\* Start(output, maxNodes, maxDepth): a new context, b.Cancel = its cancel
\* function, and a new goroutine running b.start
LifeStart ==
  /\ cancelFn # -1
  /\ Len(loops) < MaxLoops
  /\ loops' = Append(loops, [state |-> "running", done |-> FALSE])
  /\ cancelFn' = Len(loops) + 1
  /\ UNCHANGED <<engineVars, moveVars, textVars, heapVars, tableVars>>

\* Stop(): b.Cancel(); calling the nil function ends the process
LifeStop ==
  /\ cancelFn # -1
  /\ IF cancelFn = 0
       THEN cancelFn' = -1 /\ UNCHANGED loops
       ELSE loops' = [loops EXCEPT ![cancelFn].done = TRUE] /\ UNCHANGED cancelFn
  /\ UNCHANGED <<engineVars, moveVars, textVars, heapVars, tableVars>>

\* case <-ctx.Done() of goroutine i: bestmove, goto end
LifeCancelled ==
  /\ cancelFn # -1
  /\ \E i \in 1..Len(loops) :
       /\ loops[i].state = "running"
       /\ loops[i].done
       /\ loops' = [loops EXCEPT ![i].state = "ended"]
  /\ UNCHANGED cancelFn
  /\ UNCHANGED <<engineVars, moveVars, textVars, heapVars, tableVars>>

\* goroutine i ends by itself: the queue is empty or the node cap is reached
LifeFinished ==
  /\ cancelFn # -1
  /\ \E i \in 1..Len(loops) :
       /\ loops[i].state = "running"
       /\ loops' = [loops EXCEPT ![i].state = "ended"]
  /\ UNCHANGED cancelFn
  /\ UNCHANGED <<engineVars, moveVars, textVars, heapVars, tableVars>>

LifeNext == LifeStart \/ LifeStop \/ LifeCancelled \/ LifeFinished

SpecLife == LifeInit /\ [][LifeNext]_vars

(***************************************************************************)
(* Properties                                                              *)
(***************************************************************************)
LoopPcs == {"select", "send", "timer2"}

BestMoveCount(out) == Cardinality({i \in 1..Len(out) : out[i][1] = "bestmove"})

\* C1: once the stop signal is raised while the search loop runs, the loop
\* eventually ends having written exactly one best-move line; after the loop
\* has taken the cancellation branch the queue and the evaluation tree are
\* left as they are, and there is never a second best-move line.
CancelledSearchEnds ==
  /\ (ctxDone /\ pc \in LoopPcs /\ crashed = "") ~> (pc = "end" /\ BestMoveCount(output) = 1)
  /\ [][branch = "cancel" => (queue' = queue /\ EvalTree' = EvalTree)]_vars
  /\ [](BestMoveCount(output) <= 1)

\* a search ended by cancellation with positions left in the queue
CancelledWithQueueLeft ==
  /\ pc = "end"
  /\ branch = "cancel"
  /\ Len(queue) > 0
  /\ BestMoveCount(output) = 1

\* C2: a search loop that has ended has written exactly one best-move line,
\* and a best-move line is always the last line written: once it is written
\* the loop is at its end.
BestMoveIsLastLine ==
  /\ BestMoveCount(output) <= 1
  /\ \A i \in 1..Len(output) : output[i][1] = "bestmove" => (i = Len(output) /\ pc = "end")
  /\ pc = "end" => BestMoveCount(output) = 1

\* a search ended by an empty queue, after a timer report
EndedByEmptyQueue ==
  /\ pc = "end"
  /\ branch = "empty"
  /\ ticks > 0
  /\ Len(output) >= 5
  /\ output[Len(output)][1] = "bestmove"

\* C3: with a node cap k > 0 the loop never pops more than k positions, and
\* once the k-th position is popped the loop ends with the telemetry line and
\* the best-move line as its last two lines.
NodeCapHalts ==
  /\ [](maxNodes > 0 => pops <= maxNodes)
  /\ (maxNodes > 0 /\ pops = maxNodes /\ pc # "end" /\ crashed = "")
       ~> (/\ pc = "end"
           /\ Len(output) >= 2
           /\ output[Len(output)][1] = "bestmove"
           /\ output[Len(output) - 1][1] = "info ns"
           /\ Len(output[Len(output) - 1]) = 4)

\* a search ended by the node cap with positions left in the queue
CapReachedWithQueueLeft ==
  /\ pc = "end"
  /\ branch = "queue"
  /\ maxNodes > 0
  /\ pops = maxNodes
  /\ Len(queue) > 0

\* C4: in an iteration of the loop that starts with cancellation signalled,
\* the branch taken is the cancellation branch.
CancellationHasPriority ==
  [][(ctxDone /\ pc = "select" /\ pc' # "select") => branch' = "cancel"]_vars

\* C5: Stop never faults, whenever it is called, and there is never more than
\* one best-move line.
StopNeverFaults == crashed # "Stop" /\ BestMoveCount(output) <= 1

\* the position reached from f by the moves line[i..]
RECURSIVE ApplyLine(_, _, _)
ApplyLine(f, line, i) ==
  IF i > Len(line) THEN f ELSE ApplyLine(ApplyMove(f, line[i]), line, i + 1)

\* the principal line the tree reports
PrincipalLine(t) == GetBestLine(t, <<t[<<>>].BestLine>>).Line

\* C6: a search that ran to completion from a root with a forced mate within
\* the selective depth reports a principal line that starts with the best
\* move and ends in a position in which the opponent is checkmated.
CompletedSearchReportsMate ==
  (/\ pc = "end"
   /\ branch = "empty"
   /\ maxNodes = 0
   /\ RefForcedMate(StartingPosition.Board, StartingPosition.ToMove, SelDepth))
  => \E end \in {ApplyLine(StartingPosition, PrincipalLine(EvalTree), 1)} :
       /\ end.ToMove = Opposite(StartingPosition.ToMove)
       /\ RefCheckmate(end.Board, end.ToMove)

\* C7: when some legal move checkmates the opponent, BestMove returns such a
\* move, the position after it passes IsMate, the score is the mate score and
\* the game is reported finished.
BestMoveDeliversMate ==
  (stage = "best" /\ RefMatingMoves(current.Board, current.ToMove) # {})
  => /\ ~chosen.panic
     /\ <<chosen.move.From, chosen.move.To>> \in RefMatingMoves(current.Board, current.ToMove)
     /\ IsMate(ApplyMove(current, chosen.move))
     /\ chosen.score = PosInf
     /\ chosen.finished

RefMoveOfKing(f, m) == m.From = RefKing(f.Board, f.ToMove)

\* a king move to a square without a friendly piece that no opposing piece attacks
RefEscape(f, m) ==
  /\ RefMoveOfKing(f, m)
  /\ PieceColor(f.Board[m.To]) # f.ToMove
  /\ RefAttackers(f.Board, Opposite(f.ToMove), m.To) = {}

\* a move onto a square strictly between the single checker and the king
RefBlock(f, m) ==
  \E c \in RefCheckers(f) :
     RefCheckers(f) = {c} /\ m.To \in RefBetween(c, RefKing(f.Board, f.ToMove))

\* a move onto the square of the single checker
RefCapture(f, m) == RefCheckers(f) = {m.To}

\* C8: in check, every move of ValidMoves is a king escape, a block or a
\* capture of the checker, and the list is empty exactly when IsMate holds;
\* IsMate is false when the king is not attacked.
InCheckMovesEscapeBlockOrCapture ==
  /\ (stage = "moves" /\ RefCheckers(current) # {})
     => /\ \A i \in 1..Len(generated) :
             \/ RefEscape(current, generated[i])
             \/ RefBlock(current, generated[i])
             \/ RefCapture(current, generated[i])
        /\ (generated = <<>>) <=> IsMate(current)
  /\ (stage = "moves" /\ RefCheckers(current) = {}) => ~IsMate(current)

\* C9: with two or more checking pieces every move of ValidMoves is a move of
\* the king.
DoubleCheckOnlyKingMoves ==
  (stage = "moves" /\ Cardinality(RefCheckers(current)) >= 2)
  => \A i \in 1..Len(generated) : RefMoveOfKing(current, generated[i])

\* a double check with king moves returned although another piece attacks a
\* checker or a square between a checker and the king
DoubleCheckWithOtherDefence ==
  /\ stage = "moves"
  /\ Cardinality(RefCheckers(current)) >= 2
  /\ Len(generated) > 0
  /\ \E c \in RefCheckers(current) :
       \E sq \in RefBetween(c, RefKing(current.Board, current.ToMove)) \cup {c} :
          RefAttackers(current.Board, current.ToMove, sq)
             \ {RefKing(current.Board, current.ToMove)} # {}

MovePairs(ms) == {<<ms[i].From, ms[i].To>> : i \in 1..Len(ms)}

\* C10: with a knight as the single checker, the moves of ValidMoves are the
\* king escapes together with every capture of the knight by a piece of the
\* side to move.
KnightCheckEscapesAndCaptures ==
  (stage = "moves" /\ \E n \in RefCheckers(current) :
                         RefCheckers(current) = {n} /\ current.Board[n] \in {"N", "n"})
  => \E n \in RefCheckers(current) :
       MovePairs(generated) =
         MovePairs(KingEscapes(current))
           \cup {<<from, n>> : from \in RefAttackers(current.Board, current.ToMove, n)
                                         \ {RefKing(current.Board, current.ToMove)}}

\* C11: from the standard opening position ValidMoves (of either copy of the
\* position type) returns exactly the 16 pawn advances and the 4 knight moves,
\* each once, none with a promotion.
OpeningHasTwentyMoves ==
  (stage \in {"moves", "movesMain"} /\ current = PosOpening)
  => /\ Len(generated) = 20
     /\ MovePairs(generated) =
          {<<8 + i, 16 + i>> : i \in 0..7} \cup {<<8 + i, 24 + i>> : i \in 0..7}
            \cup {<<1, 16>>, <<1, 18>>, <<6, 21>>, <<6, 23>>}
     /\ \A i \in 1..Len(generated) : generated[i].Promote = NoPiece

\* the move list of the standard opening position
OpeningMovesGenerated ==
  /\ stage = "moves"
  /\ current = PosOpening
  /\ Len(generated) > 0

\* the entries of the move list ms with the origin and destination of ms[i]
SameSquares(ms, i) == {j \in 1..Len(ms) : ms[j].From = ms[i].From /\ ms[j].To = ms[i].To}

\* the pawn move ms[i] of position f lands on the farthest rank of its mover
ReachesFarRank(f, ms, i) ==
  \/ f.Board[ms[i].From] = "P" /\ ms[i].To \div 8 = 7
  \/ f.Board[ms[i].From] = "p" /\ ms[i].To \div 8 = 0

\* C12: in every generated move list a pawn move onto the farthest rank stands
\* as exactly four entries, promoting to the queen, rook, bishop and knight of
\* the mover's colour; every other pawn move stands once, without a promotion.
PromotionsExpandToFour ==
  stage = "moves"
  => \A i \in 1..Len(generated) :
       current.Board[generated[i].From] \in {"P", "p"}
       => IF ReachesFarRank(current, generated, i)
            THEN /\ Cardinality(SameSquares(generated, i)) = 4
                 /\ {generated[j].Promote : j \in SameSquares(generated, i)} =
                      {ToPiece(k, current.ToMove) : k \in {Queen, Rook, Bishop, Knight}}
            ELSE /\ SameSquares(generated, i) = {i}
                 /\ generated[i].Promote = NoPiece

\* a move list of Black with a promoting advance, a promoting capture and a
\* pawn move that does not promote
BlackPromotesBothWays ==
  /\ stage = "moves"
  /\ current.ToMove = Black
  /\ \E i, j, k \in 1..Len(generated) :
       /\ current.Board[generated[i].From] = "p" /\ generated[i].Promote # NoPiece
       /\ generated[i].From - generated[i].To = 8
       /\ current.Board[generated[j].From] = "p" /\ generated[j].Promote # NoPiece
       /\ generated[j].From - generated[j].To \in {7, 9}
       /\ current.Board[generated[k].From] = "p" /\ generated[k].Promote = NoPiece

\* the piece index of f lists a square under (colour, kind) exactly when the
\* board holds that piece there, and lists no square twice
IndexAgrees(f) ==
  \A c \in {Black, White} : \A k \in NormalizedPieces :
     /\ SeqToSet(f.Pieces[c][k]) = {sq \in Squares : f.Board[sq] = ToPiece(k, c)}
     /\ Cardinality(SeqToSet(f.Pieces[c][k])) = Len(f.Pieces[c][k])

\* C17: the piece index of every position made by ApplyMove agrees with its
\* board.
IndexAgreesWithBoard ==
  /\ IndexAgrees(current)
  /\ last.copy # "none" => IndexAgrees(last.child)

\* the castling rights a status stands for
RightsOf(status) ==
  IF status = Both THEN {"K", "Q"}
  ELSE IF status = Kingside THEN {"K"}
  ELSE IF status = Queenside THEN {"Q"}
  ELSE {}

\* the rights left to the side with the given rook and king after mover left from
RightsLeft(rights, mover, from, rook, king, queenRookHome, kingRookHome) ==
  IF mover = king THEN {}
  ELSE IF mover = rook /\ from = queenRookHome THEN rights \ {"Q"}
  ELSE IF mover = rook /\ from = kingRookHome THEN rights \ {"K"}
  ELSE rights

ApplyMoveAdvancesCounters ==
  last.copy # "none"
  => /\ last.child.ToMove = Opposite(last.parent.ToMove)
     /\ last.child.HalfmoveClock = last.parent.HalfmoveClock + 1
     /\ last.child.Fullmove =
          last.parent.Fullmove + (IF last.parent.ToMove = Black THEN 1 ELSE 0)
     /\ last.child.Line = Append(last.parent.Line, last.move)

\* the text names one of the 64 squares
IsSquareName(s) ==
  Len(s) = 2 /\ s[1] \in SeqToSet(FileChars) /\ s[2] \in SeqToSet(DigitChars)

\* the board index 0..63 of a square name, and the name of an index
SquareIndex(s) ==
  (CHOOSE y \in 0..7 : DigitChars[y + 1] = s[2]) * 8 + (CHOOSE x \in 0..7 : FileChars[x + 1] = s[1])

SquareName(i) == <<FileChars[(i % 8) + 1], DigitChars[(i \div 8) + 1]>>

\* the last byte of each rank of a board field
RankEnds(forStr) ==
  {i \in 1..Len(forStr) : forStr[i] # "/" /\ (i = Len(forStr) \/ forStr[i + 1] = "/")}

\* the text is malformed: a field is missing, the side to move is not w or b,
\* the en-passant field is neither "-" nor a square, a rank has more than
\* eight squares, there are more than eight ranks, or a letter is no piece
MalformedText(t) ==
  \/ Len(t) < 6
  \/ t[2] \notin {<<"w">>, <<"b">>}
  \/ t[4] # <<"-">> /\ ~IsSquareName(t[4])
  \/ \E i \in RankEnds(t[1]) : ColAfter(t[1], i) > 8
  \/ Cardinality({i \in 1..Len(t[1]) : t[1][i] = "/"}) > 7
  \/ \E i \in 1..Len(t[1]) :
       t[1][i] \notin {"/"} \cup SeqToSet(DigitChars) \cup {ToPiece(k, c) : k \in NormalizedPieces, c \in {Black, White}}

\* C13: for a position parsed from a well-formed text, and for every position
\* reached from it by ApplyMove, parsing the text that FENString writes
\* succeeds and gives the same board, castling rights, side to move, halfmove
\* clock and fullmove number.
ReparseReproducesPosition ==
  (tstage = "reparsed" /\ ~MalformedText(text)) =>
    /\ reparsed.status = "ok"
    /\ reparsed.fen.Board = parsed.fen.Board
    /\ reparsed.fen.WhiteCastleStatus = parsed.fen.WhiteCastleStatus
    /\ reparsed.fen.BlackCastleStatus = parsed.fen.BlackCastleStatus
    /\ reparsed.fen.ToMove = parsed.fen.ToMove
    /\ reparsed.fen.HalfmoveClock = parsed.fen.HalfmoveClock
    /\ reparsed.fen.Fullmove = parsed.fen.Fullmove

\* C14: ParsePosition gives a square name its board index 0..63, the text of
\* that index is the same name, and a well-formed position text with an
\* en-passant square is written back with the same en-passant field.
SquareNamesRoundTrip ==
  /\ tstage \in {"square", "named"} =>
       parsed.status = "ok" /\ parsed.pos = SquareIndex(text)
  /\ tstage = "named" => written = text
  /\ tstage = "indexNamed" => written = SquareName(text)
  /\ (tstage = "written" /\ ~MalformedText(text) /\ parsed.fen.Line = <<>>
        /\ text[4] # <<"-">>) => written[4] = text[4]

\* C15: ParseFEN answers every malformed text with an error and no position,
\* and never faults.
MalformedTextIsRejected ==
  (tstage = "parsed" /\ MalformedText(text)) => parsed.status = "error"

\* the slices and the index of an object
CellsOf(o) == {o.Board, o.Pieces, o.Line}

\* C16: a position object keeps the value it was constructed with whatever
\* ApplyMove, NextFENs and ValidMoves are called on it or on any other object,
\* and no two objects share a board, an index or a line.
PositionsNeverMutated ==
  /\ \A j \in 1..Len(objs) : Deref(objs[j], cells) = shots[j]
  /\ \A j, k \in 1..Len(objs) : j # k => CellsOf(objs[j]) \cap CellsOf(objs[k]) = {}

\* two successors of one position exist, and one of them has a successor
SiblingsAndGrandchild ==
  \E j, k, g \in 1..Len(objs) :
    /\ j # k
    /\ Len(shots[j].Line) = 1
    /\ Len(shots[k].Line) = 1
    /\ Len(shots[g].Line) = 2
    /\ shots[g].Line[1] = shots[j].Line[1]

\* the goroutines that are in the search loop
Running == {i \in 1..Len(loops) : loops[i].state = "running"}

\* C20: whatever Start and Stop calls are made on one engine, at most one
\* search loop is running, and every running loop is either cancelled already
\* or the one that Stop cancels.
AtMostOneLoopRunning ==
  /\ Cardinality(Running) <= 1
  /\ \A i \in Running : loops[i].done \/ cancelFn = i

\* C21: within one search no two popped positions have the same text.
NoFingerprintScoredTwice ==
  \A i, j \in 1..Len(scored) : i # j => scored[i] # scored[j]

\* the next pop expands a position one of whose successors has the text of a
\* position popped before along another line
TranspositionMet ==
  /\ crashed = ""
  /\ pc = "select"
  /\ ~ctxDone
  /\ timer # "fired"
  /\ Len(queue) > 0
  /\ Len(Head(queue).Line) < SelDepth
  /\ \E nextFENs \in {NextFENs(Head(queue))} :
       \E i \in 1..Len(nextFENs) :
         /\ Len(nextFENs) = 1 \/ ShouldCheckPosition(nextFENs[i])
         /\ FENString(nextFENs[i]) \in SeqToSet(scored)
         /\ nextFENs[i].Line \notin DOMAIN EvalTree

\* the search is seeded and the loop has not taken a branch yet
Seeded == crashed = "" /\ pc = "select" /\ branch = "none"

\* the positions of the initial principal line
FirstLine == InitialBestLine(Evaluators, NewEvalTree(NegInf), StartingPosition, SelDepth).line

\* the part of the seeded queue behind the principal line
BehindFirstLine == SubSeq(queue, Len(FirstLine) + 1, Len(queue))

\* the root's successors that do not make the first move of the principal line
OtherRootChildren ==
  {f \in SeqToSet(NextFENs(StartingPosition)) : f.Line[1] # FirstLine[1].Line[1]}

WantedSuccessors(game, seenNow) ==
  Let(NextFENs(game), LAMBDA nextFENs :
    SelectSeq(nextFENs, LAMBDA f :
      /\ FENString(f) \notin seenNow
      /\ \/ Len(nextFENs) <= 1
         \/ InCheck(f)
         \/ Len(ValidMoves(f)) <= 1))

\* C23: a pop of a position shorter than the selective depth puts at the front
\* of the queue exactly its unseen successors that are forced (the parent had at
\* most one reply), in check, or left with at most one reply, the last
\* generated first; it queues no other successor, and a pop at the selective
\* depth queues nothing.
ExpansionQueuesForcedOrChecked ==
  [][pops' = pops + 1 =>
       queue' = (IF Len(Head(queue).Line) < SelDepth
                   THEN Reverse(WantedSuccessors(Head(queue), seen'))
                   ELSE <<>>) \o Tail(queue)]_vars

\* the last pop queued a successor of the popped position and left another out
ExpansionSkipsSuccessor ==
  /\ crashed = ""
  /\ branch = "queue"
  /\ Len(queue) > 0
  /\ Len(Head(queue).Line) = depth + 1
  /\ \E parent \in {ApplyLine(StartingPosition, SubSeq(Head(queue).Line, 1, depth), 1)} :
       /\ FENString(parent) = scored[Len(scored)]
       /\ \E f \in SeqToSet(NextFENs(parent)) : f \notin SeqToSet(queue)

\* C24: every position in the queue has a line of 1 to SelDepth moves, and no
\* line of the evaluation tree is longer than SelDepth.
LinesWithinSelDepth ==
  /\ \A i \in 1..Len(queue) : Len(queue[i].Line) \in 1..SelDepth
  /\ \A line \in DOMAIN EvalTree : Len(line) <= SelDepth

\* a position at a selective depth above 1 has been popped and scored, and the
\* search went on
PoppedAtSelDepth ==
  /\ crashed = ""
  /\ SelDepth > 1
  /\ branch = "queue"
  /\ depth = SelDepth
  /\ Len(queue) > 0

\* C25: the depth counter starts above every line, so the backup pass runs on
\* the first pop; on every pop the pass runs exactly when the popped line is
\* shorter than the counter, and before the score is inserted; after the pop
\* the counter is the length of the popped line.
BackupRunsOnShorterLine ==
  /\ [](crashed = "" /\ pc = "select" /\ pops = 0 => depth = SelDepth + 1)
  /\ [][pops' = pops + 1 =>
          /\ depth' = Len(Head(queue).Line)
          /\ EvalTree' = Insert(IF Len(Head(queue).Line) < depth
                                  THEN UpdateBestLine(EvalTree) ELSE EvalTree,
                                Head(queue).Line,
                                ScorePosition(Evaluators, Head(queue)))]_vars

\* the next pop is not the first, its line is shorter than the counter, and
\* the backup pass changes the tree
BackupChangesTree ==
  /\ crashed = ""
  /\ pc = "select"
  /\ ~ctxDone
  /\ timer # "fired"
  /\ pops > 0
  /\ Len(queue) > 0
  /\ Len(Head(queue).Line) < depth
  /\ UpdateBestLine(EvalTree) # EvalTree

\* the loop has ended by the empty queue, its last three lines being the
\* principal variation, the telemetry and the best move
EndedWithFinalLines ==
  /\ pc = "end"
  /\ branch = "empty"
  /\ Len(queue) = 0
  /\ Len(output) >= 3
  /\ output[Len(output) - 2][1] = "info depth"
  /\ output[Len(output) - 1][1] = "info ns"
  /\ output[Len(output)][1] = "bestmove"

\* C26: a search loop that runs without a node cap and is never cancelled ends
\* by the empty queue with the principal variation, the telemetry and the
\* best-move line as its last lines.
UncappedSearchTerminates ==
  (crashed = "" /\ pc = "select" /\ maxNodes = 0) ~> (EndedWithFinalLines \/ ctxDone)

\* an uncapped search of selective depth above 1 that was never cancelled has
\* popped more than three positions, met a timer report, and ended
UncappedSearchEnded ==
  /\ EndedWithFinalLines
  /\ maxNodes = 0
  /\ ~ctxDone
  /\ SelDepth > 1
  /\ pops > 3
  /\ ticks > 0

(***************************************************************************)
(* The attack primitive against the rules of chess                         *)
(***************************************************************************)
AttackPairs(moves) == {<<moves[i].From, moves[i].To>> : i \in 1..Len(moves)}

\* the pairs (from, to) with a piece of the colour on from attacking a square
\* to on which the predicate holds
RefAttackPairs(board, cond, color) ==
  {m \in RefOwn(board, color) \X cond : RefAttacksFrom(board, m[1], m[2])}

OpposingPieces(f, color) ==
  {p \in Squares : f.Board[p] # NoPiece /\ PieceColor(f.Board[p]) = Opposite(color)}

\* C27: for either colour, GetAttacksOnCondition returns exactly the attacks of
\* the rules of chess (pawn diagonals, knight and king target squares, slider
\* rays up to the first occupied square) on the squares satisfying the
\* predicate, for the predicates of GetAttacks and of AttacksSquare.
AttacksAreExactlyReference ==
  stage = "moves"
  => \A color \in {Black, White} :
        /\ AttackPairs(GetAttacks(current, color))
             = RefAttackPairs(current.Board, OpposingPieces(current, color), color)
        /\ \A square \in Squares :
              AttackPairs(GetAttacksOnCondition(current, {square}, color))
                = RefAttackPairs(current.Board, {square}, color)

(***************************************************************************)
(* The interposition walk of validMovesInCheck                             *)
(***************************************************************************)
\* the single piece giving check, when it is not a knight
SingleChecker(f) ==
  IF Cardinality(RefCheckers(f)) = 1
     /\ \A c \in RefCheckers(f) : ToNormalizedPiece(f.Board[c]) # Knight
    THEN RefCheckers(f)
    ELSE {}

\* C28: the interposition walk never aborts, and when exactly one piece other
\* than a knight attacks the king, the walk from the king towards that piece
\* takes at most 7 steps and collects exactly the squares strictly between the
\* two and the square of the checking piece.
InterpositionWalkReachesChecker ==
  /\ stage # "aborted"
  /\ stage \in {"moves", "movesMain"}
     => \A c \in SingleChecker(current) :
          \E checks \in {Checks(current)} :
             \A i \in 1..Len(checks) :
                \E walk \in {BlockSquares(checks[i])} :
                   /\ ~walk.panic
                   /\ Cardinality(walk.blocks) <= 7
                   /\ walk.blocks
                        = RefBetween(c, RefKing(current.Board, current.ToMove)) \cup {c}

\* the moves of a king checked by one rook or bishop seven or three squares
\* away were generated, the walk having run for the one check
WalkedToDistantChecker ==
  /\ stage = "moves"
  /\ Len(Checks(current)) = 1
  /\ \E c \in SingleChecker(current) :
        /\ RefDist(c, RefKing(current.Board, current.ToMove)) >= 3
        /\ \E i \in 1..Len(generated) :
              generated[i].To \in RefBetween(c, RefKing(current.Board, current.ToMove))

(***************************************************************************)
(* Quiet pawn advances                                                     *)
(***************************************************************************)
\* a move of a pawn along its file
IsPawnAdvance(f, m) ==
  /\ ToNormalizedPiece(f.Board[m.From]) = Pawn
  /\ RefFile(m.From) = RefFile(m.To)

\* C29: when the side to move is not in check, a pawn advance of ValidMoves
\* goes one square ahead onto an empty square, or two squares ahead from the
\* pawn's start rank with the square ahead and the destination both empty.
PawnAdvancesAreBlockedByOccupancy ==
  (stage \in {"moves", "movesMain"} /\ Len(Checks(current)) = 0)
  => \A i \in 1..Len(generated) :
        IsPawnAdvance(current, generated[i])
        => \E ahead \in {IF current.ToMove = White THEN 8 ELSE 0 - 8} :
           \E m \in {generated[i]} :
              /\ current.Board[m.To] = NoPiece
              /\ \/ m.To = m.From + ahead
                 \/ /\ m.To = m.From + 2 * ahead
                    /\ RefRank(m.From) = (IF current.ToMove = White THEN 1 ELSE 6)
                    /\ current.Board[m.From + ahead] = NoPiece

(***************************************************************************)
(* Moves out of check                                                      *)
(***************************************************************************)
\* C30: every move ValidMoves returns for a position in check leaves the king
\* of the side that moved attacked by no opposing piece, the opposing king
\* included, in the position ApplyMove makes of it.
InCheckMovesResolveCheck ==
  (stage = "moves" /\ Len(Checks(current)) > 0)
  => \A i \in 1..Len(generated) :
        ~ApplyMovePanics(current, generated[i])
        => ~RefInCheck(ApplyMove(current, generated[i]).Board, current.ToMove)

(***************************************************************************)
(* ValidMovesList: for each square the squares the piece on it may move    *)
(* to, kept up to date move by move.  A PositionBitmap is the set of its   *)
(* positions.                                                              *)
(***************************************************************************)
NewValidMovesList == Concrete([pos \in Squares |-> {}])

IsEmpty(board, pos) == board[pos] = NoPiece

IsOpposingPiece(board, pos, color) ==
  board[pos] # NoPiece /\ PieceColor(board[pos]) = Opposite(color)

IsOppositeColor(board, pos, color) == IsOpposingPiece(board, pos, color)

\* the direction in which pawns of the colour advance
PawnAhead(color) == IF color = White THEN 1 ELSE 0 - 1

CanPawnOpeningJump(pos, color) == pos \div 8 = (IF color = White THEN 1 ELSE 6)

IsPawnOpeningJump(pos, color) == pos \div 8 = (IF color = White THEN 3 ELSE 4)

GetPawnOpeningJump(pos, color) == pos + 16 * PawnAhead(color)

GetQueenMoves(pos) == Rays(pos, DiagonalDirs \o LineDirs)

GetKnightMoves(pos) == Targets(pos, KnightDirs)

\* the lines a piece on pos moves along: one square each for knight and king,
\* the file ahead (one square, two from the start rank) for a pawn
GetMoveVectors(pos, piece) ==
  LET kind == ToNormalizedPiece(piece)
      color == PieceColor(piece)
      singles(ds) == [i \in 1..Len(Targets(pos, ds)) |-> <<Targets(pos, ds)[i]>>]
  IN CASE kind = Pawn ->
            SelectSeq(<< Targets(pos, IF CanPawnOpeningJump(pos, color)
                                        THEN << <<0, PawnAhead(color)>>,
                                                <<0, 2 * PawnAhead(color)>> >>
                                        ELSE << <<0, PawnAhead(color)>> >>) >>,
                      LAMBDA l : l # <<>>)
       [] kind = Knight -> singles(KnightDirs)
       [] kind = King -> singles(KingDirs)
       [] kind = Bishop -> Rays(pos, DiagonalDirs)
       [] kind = Rook -> Rays(pos, LineDirs)
       [] OTHER -> Rays(pos, DiagonalDirs \o LineDirs)

\* the two diagonal squares ahead of a pawn, one line each
GetAttackVectors(pos, piece) ==
  LET tos == Targets(pos, << <<0 - 1, PawnAhead(PieceColor(piece))>>,
                             <<1, PawnAhead(PieceColor(piece))>> >>)
  IN [i \in 1..Len(tos) |-> <<tos[i]>>]

IsPawnAttack(pos, target, color) ==
  \E i \in 1..Len(GetAttackVectors(pos, ToPiece(Pawn, color))) :
     GetAttackVectors(pos, ToPiece(Pawn, color))[i] = <<target>>

\* the piece, standing on from, moves to to on an empty board
CanReach(piece, from, to) ==
  \E i \in 1..Len(GetMoveVectors(from, piece)) : to \in SeqToSet(GetMoveVectors(from, piece)[i])

\* the first occupied square of the line, NoPosition when there is none
RECURSIVE FindPieceOnLine(_, _)
FindPieceOnLine(board, line) ==
  IF line = <<>> THEN NoPosition
  ELSE IF board[Head(line)] # NoPiece THEN Head(line)
  ELSE FindPieceOnLine(board, Tail(line))

\* Move.Vector().Normalize(): the unit step from the move's target to its origin
NormalizedVector(from, to) ==
  << RefSign((from % 8) - (to % 8)), RefSign((from \div 8) - (to \div 8)) >>

\* the squares of the line up to the first occupied one, which is taken with
\* them when a piece of the other colour stands on it and takes is TRUE
RECURSIVE LineUntilBlockingPiece(_, _, _, _)
LineUntilBlockingPiece(line, board, color, takes) ==
  IF line = <<>> THEN {}
  ELSE IF IsEmpty(board, Head(line))
         THEN {Head(line)} \cup LineUntilBlockingPiece(Tail(line), board, color, takes)
  ELSE IF IsOpposingPiece(board, Head(line), color) /\ takes THEN {Head(line)}
  ELSE {}

LinesUntilBlockingPiece(lines, board, color, takes) ==
  UNION {LineUntilBlockingPiece(lines[i], board, color, takes) : i \in 1..Len(lines)}

addLineUntilBlockingPiece(v, fromPos, line, board, color) ==
  [v EXCEPT ![fromPos] = @ \cup LineUntilBlockingPiece(line, board, color, TRUE)]

removeLineUntilBlockingPiece(v, fromPos, line, board, color) ==
  [v EXCEPT ![fromPos] = @ \ LineUntilBlockingPiece(line, board, color, TRUE)]

AddPiece(v, piece, pos, board) ==
  IF piece = NoPiece THEN v
  ELSE LET isPawn == ToNormalizedPiece(piece) = Pawn
           moves == LinesUntilBlockingPiece(GetMoveVectors(pos, piece), board,
                                            PieceColor(piece), ~isPawn)
           attacks == IF isPawn
                        THEN {toPos \in UNION {SeqToSet(GetAttackVectors(pos, piece)[i]) :
                                                 i \in 1..Len(GetAttackVectors(pos, piece))} :
                                IsOpposingPiece(board, toPos, PieceColor(piece))}
                        ELSE {}
       IN [v EXCEPT ![pos] = @ \cup moves \cup attacks]

\* each AddPiece of the loop writes the entry of its own square only
NewValidMovesListFromBoard(board) ==
  Concrete([pos \in Squares |-> AddPiece(NewValidMovesList, board[pos], pos, board)[pos]])

\* one line from move.From in extendPreviouslyBlockedPieces
extendOnLine(v, move, board, line) ==
  LET pieceOnLine == FindPieceOnLine(board, line)
      extendingPiece == board[pieceOnLine]
      normPiece == ToNormalizedPiece(extendingPiece)
      color == PieceColor(extendingPiece)
  IN IF pieceOnLine = NoPosition THEN v
     ELSE CASE normPiece = Pawn ->
                 IF CanReach(extendingPiece, pieceOnLine, move.From)
                   THEN [v EXCEPT ![pieceOnLine] =
                           @ \cup LinesUntilBlockingPiece(
                                    GetMoveVectors(pieceOnLine, extendingPiece),
                                    board, color, FALSE)]
                 ELSE IF IsPawnAttack(pieceOnLine, move.From, color)
                   THEN [v EXCEPT ![pieceOnLine] = @ \ {move.From}]
                 ELSE v
            [] normPiece = Knight -> v
            [] normPiece = King ->
                 IF CanReach(extendingPiece, pieceOnLine, move.From)
                   THEN [v EXCEPT ![pieceOnLine] = @ \cup {move.From}]
                   ELSE v
            [] OTHER ->
                 IF ~CanReach(extendingPiece, pieceOnLine, move.From) THEN v
                 ELSE addLineUntilBlockingPiece(
                        [v EXCEPT ![pieceOnLine] = @ \cup {move.From}],
                        pieceOnLine,
                        FollowVector(move.From, NormalizedVector(move.From, pieceOnLine)),
                        board, color)

RECURSIVE extendOnLines(_, _, _, _)
extendOnLines(v, move, board, lines) ==
  IF lines = <<>> THEN v
  ELSE extendOnLines(extendOnLine(v, move, board, Head(lines)), move, board, Tail(lines))

extendPreviouslyBlockedPieces(v, move, board) ==
  LET w == extendOnLines(v, move, board, GetQueenMoves(move.From))
  IN [pos \in Squares |->
        IF pos \in SeqToSet(GetKnightMoves(move.From))
           /\ ToNormalizedPiece(board[pos]) = Knight
          THEN w[pos] \cup {move.From}
          ELSE w[pos]]

\* Add an attack to move.To, otherwise remove it
attackOrRemove(v, pieceOnLine, move, board, color) ==
  IF IsOpposingPiece(board, move.To, color)
    THEN [v EXCEPT ![pieceOnLine] = @ \cup {move.To}]
    ELSE [v EXCEPT ![pieceOnLine] = @ \ {move.To}]

\* one line from move.To in shrinkValidMovesForPiecesThatAreNowBlocked
shrinkOnLine(v, move, board, line) ==
  LET pieceOnLine == FindPieceOnLine(board, line)
      blockingPiece == board[pieceOnLine]
      normPiece == ToNormalizedPiece(blockingPiece)
      color == PieceColor(blockingPiece)
  IN IF pieceOnLine = NoPosition THEN v
     ELSE CASE normPiece = Pawn ->
                 IF IsPawnAttack(pieceOnLine, move.To, color)
                   THEN attackOrRemove(v, pieceOnLine, move, board, color)
                 ELSE IF CanReach(blockingPiece, pieceOnLine, move.To)
                   THEN [v EXCEPT ![pieceOnLine] =
                           (@ \ {move.To})
                           \ (IF ~IsPawnOpeningJump(move.To, color)
                                 /\ CanPawnOpeningJump(pieceOnLine, color)
                                THEN {GetPawnOpeningJump(pieceOnLine, color)}
                                ELSE {})]
                 ELSE v
            [] normPiece = Knight -> v
            [] normPiece = King ->
                 IF CanReach(blockingPiece, pieceOnLine, move.To)
                   THEN attackOrRemove(v, pieceOnLine, move, board, color)
                   ELSE v
            [] OTHER ->
                 IF ~CanReach(blockingPiece, pieceOnLine, move.To) THEN v
                 ELSE removeLineUntilBlockingPiece(
                        attackOrRemove(v, pieceOnLine, move, board, color),
                        pieceOnLine,
                        FollowVector(move.To, NormalizedVector(move.To, pieceOnLine)),
                        board, color)

RECURSIVE shrinkOnLines(_, _, _, _)
shrinkOnLines(v, move, board, lines) ==
  IF lines = <<>> THEN v
  ELSE shrinkOnLines(shrinkOnLine(v, move, board, Head(lines)), move, board, Tail(lines))

shrinkValidMovesForPiecesThatAreNowBlocked(v, move, board) ==
  LET w == shrinkOnLines(v, move, board, GetQueenMoves(move.To))
      color == Opposite(PieceColor(board[move.To]))
  IN [pos \in Squares |->
        IF pos \in SeqToSet(GetKnightMoves(move.To))
          THEN IF board[pos] = ToPiece(Knight, color) THEN w[pos] \cup {move.To}
               ELSE IF board[pos] = ToPiece(Knight, Opposite(color)) THEN w[pos] \ {move.To}
               ELSE w[pos]
          ELSE w[pos]]

\* ValidMovesList.ApplyMove for a move that is neither a castling move nor an
\* en passant capture; board is the board with the move made.  The receiver
\* is copied value by value, so the call leaves it as it was.
ValidMovesListApplyMove(v, move, movingPiece, board) ==
  LET copied == v
      cleared == [copied EXCEPT ![move.From] = {}, ![move.To] = {}]
      extended == extendPreviouslyBlockedPieces(cleared, move, board)
      shrunk == shrinkValidMovesForPiecesThatAreNowBlocked(extended, move, board)
  IN [receiver |-> v,
      result |-> IF move.Promote = NoPiece
                   THEN AddPiece(shrunk, movingPiece, move.To, board)
                   ELSE AddPiece(shrunk, move.Promote, move.To, board)]

MaxTableMoves == 2

\* 4k3/7p/8/8/8/8/N3P3/RN2K3: a rook in the corner a1 shut in by its knights
TableCorner ==
  BoardOf(<< <<"k", 60>>, <<"p", 55>>, <<"N", 8>>, <<"P", 12>>,
             <<"R", 0>>, <<"N", 1>>, <<"K", 4>> >>)

\* 2b1k1n1/4p3/8/8/3r4/8/3PP3/1N1QK3: no piece on a1 and none that can go there in
\* one move
TableMiddle ==
  BoardOf(<< <<"b", 58>>, <<"k", 60>>, <<"n", 62>>, <<"p", 52>>, <<"r", 27>>,
             <<"P", 11>>, <<"P", 12>>, <<"N", 1>>, <<"Q", 3>>, <<"K", 4>> >>)

\* 4k3/P7/8/8/8/8/p7/1N2K3: a pawn of each side one step from promotion
TablePromotions ==
  BoardOf(<< <<"k", 60>>, <<"P", 48>>, <<"p", 8>>, <<"N", 1>>, <<"K", 4>> >>)

TableBoards == {TableCorner, TableMiddle, TablePromotions}

TableInit ==
  /\ EngineIdle
  /\ MovesIdle
  /\ TextIdle
  /\ HeapIdle
  /\ LifeIdle
  /\ tboard \in TableBoards
  /\ table = NewValidMovesListFromBoard(tboard)
  /\ tsteps = 0
  /\ tlast = <<>>

\* the promotion pieces of a pawn move onto the last rank, NoPiece otherwise
TablePromotes(board, from, to) ==
  IF ToNormalizedPiece(board[from]) = Pawn /\ to \div 8 \in {0, 7}
    THEN {ToPiece(Queen, PieceColor(board[from])), ToPiece(Knight, PieceColor(board[from]))}
    ELSE {NoPiece}

\* a move the table offers is made on the board and table = table.ApplyMove(...)
TableApplyMove ==
  /\ tsteps < MaxTableMoves
  /\ \E from \in {pos \in Squares : tboard[pos] # NoPiece} :
     \E to \in table[from] :
     \E promote \in TablePromotes(tboard, from, to) :
     \E move \in {[From |-> from, To |-> to, Promote |-> promote]} :
     \E board \in {[tboard EXCEPT ![from] = NoPiece,
                                  ![to] = IF promote = NoPiece THEN tboard[from]
                                          ELSE promote]} :
     \E applied \in {ValidMovesListApplyMove(table, move, tboard[from], board)} :
        /\ tboard' = board
        /\ table' = applied.result
        /\ tlast' = [before |-> table, receiver |-> applied.receiver, move |-> move,
                     result |-> applied.result]
  /\ tsteps' = tsteps + 1
  /\ UNCHANGED <<engineVars, moveVars, textVars, heapVars, lifeVars>>

TableNext == TableApplyMove

SpecTable == TableInit /\ [][TableNext]_vars

\* C31: after any sequence of moves the table kept by ValidMovesList.ApplyMove
\* holds for each of the 64 squares the destination set of the table built
\* from the board by NewValidMovesListFromBoard, and each call left the table
\* it was applied to unchanged.
TableEqualsRebuiltTable ==
  tsteps > 0
  => /\ table = NewValidMovesListFromBoard(tboard)
     /\ tlast.receiver = tlast.before

(***************************************************************************)
(* Roots without a move and initial lines that end early                   *)
(***************************************************************************)
RootWithoutMove == Len(ValidMoves(StartingPosition)) = 0

\* the line of InitialBestLine has fewer positions than the selective depth
InitialLineEndsEarly ==
  Let(InitialBestLine(Evaluators, NewEvalTree(NegInf), StartingPosition, SelDepth),
      LAMBDA first : ~first.panic /\ Len(first.line) < SelDepth)

\* C32: a search whose root has no legal move, or whose initial line ends
\* before the selective depth, is never ended by the dereference of a missing
\* best successor or of a missing best line.
SearchOfDeadRootDoesNotFault ==
  crashed \in {"BestMove", "BestLine"} => ~(RootWithoutMove \/ InitialLineEndsEarly)

(***************************************************************************)
(* The scores of the seeding pass and of the main loop                     *)
(***************************************************************************)
\* C33: when the seeding is done, the score BestMove has inserted for the
\* line of each queued position that is neither drawn nor checkmate is the
\* score the main loop inserts for that line when it pops the position.
SeedScoreEqualsLoopScore ==
  (crashed = "" /\ pc = "select" /\ pops = 0)
  => \A i \in 1..Len(queue) :
        (queue[i].Line \in DOMAIN EvalTree /\ ~IsDraw(queue[i]) /\ ~IsMate(queue[i]))
        => EvalTree[queue[i].Line].Score = ScorePosition(Evaluators, queue[i])


====
